---------------------------- MODULE Spec2Model ----------------------------
(***************************************************************************)
(* Model of the offline pitch-analysis tools of SingingApp:                *)
(*   tools/02_compare_with_reference.py  (aligner, comparator, segmenter)  *)
(*   tools/08_autosync_offset.py         (autosync, shift, events)         *)
(*   tools/05_overall_summary.py         (summary statistics and verdict)  *)
(*   tools/01_make_events_and_summary.py (index-wise events and summary)   *)
(*                                                                         *)
(* Conventions.  Times are integers in milliseconds.  Frequencies are      *)
(* integers in Hz.  An optional value (Python None / numpy NaN) is the     *)
(* empty sequence, a present value v is <<v>>.  Cents are integers; the    *)
(* logarithm is computed by a fixed-point digit-by-digit algorithm that is *)
(* exact on powers of two and within a few cents elsewhere.  Python        *)
(* indices are kept 0-based (and may be negative, wrapping as in Python).  *)
(***************************************************************************)
EXTENDS Integers, Sequences, FiniteSets, TLC

VARIABLES
    pc,        \* "start" | "done" | "error": position of the script
    tool,      \* which script / function produced the results
    srR,       \* reference "sr"
    hopR,      \* reference "hop"
    tR,        \* reference times (ms)
    fR,        \* reference f0 (optional Hz)
    srU,       \* user "sr"
    hopU,      \* user "hop"
    tU,        \* user times (ms)
    fU,        \* user f0 (optional Hz)
    choose,    \* aligner output: user index per reference frame (optional)
    fUonR,     \* user f0 on the reference grid
    cents,     \* cents per reference frame (optional)
    events,    \* emitted events, in output order
    summary,   \* summary record (05 / 01)
    maxShift,  \* AUTOSYNC_MAX (ms)
    bestK,     \* autosync best lag (reference frames)
    shiftSec,  \* autosync result (ms)
    bestScore, \* autosync best score
    keyOffset, \* key_offset.json object (06)
    rows,      \* rows of the lyric input lyrics.json (11), optional
    lines,     \* aligned lyric lines (11)
    tieUp,     \* side on which doubles next to a decimal tie lie (11)
    evtJson,   \* content of the events file read by 05, optional
    subs,      \* files written by 12: lyrics.lrc, lyrics.srt, overlay, copy
    segMask,   \* a boolean frame mask handed to a segmenter
    segMin,    \* the minimum run length handed with it
    segOut,    \* the [start, end) index ranges the segmenter returned
    nLines,    \* the line count handed to split_or_merge (11)
    voicedSegs, \* the voiced segments handed to split_or_merge (11)
    intervals, \* the intervals split_or_merge returned
    songsJson, \* the server's songs.json: absent, unreadable or a song list
    heap,      \* the dict / list objects of the server process, by identity
    songCache, \* _song_cache: the object the global names
    loadedAt,  \* _song_cache_loaded_at, as the number of completed loads
    refPitchCache, \* _ref_pitch_cache: song id -> optional track object
    proc,      \* the request each server thread is handling
    edits,     \* how often songs.json has been rewritten
    variant,   \* which of the two servers runs
    history,   \* the rows of the history table
    nextId,    \* the number of history ids drawn so far
    hreq,      \* the history_append request each thread is handling
    answered   \* the answers given so far, per (user_id, client_hash)

LyricVars == <<rows, lines, tieUp>>
\* what the analysis tools 01 - 11 never touch
CatalogVars == <<songsJson, heap, songCache, loadedAt, refPitchCache, proc,
                 edits>>
HistoryVars == <<variant, history, nextId, hreq, answered>>
OtherVars == <<subs, segMask, segMin, segOut, nLines, voicedSegs, intervals,
               CatalogVars, HistoryVars>>

vars == <<pc, tool, srR, hopR, tR, fR, srU, hopU, tU, fU, choose, fUonR,
          cents, events, summary, maxShift, bestK, shiftSec, bestScore,
          keyOffset, LyricVars, evtJson, OtherVars>>

(***************************************************************************)
(* Bounds of the model.                                                    *)
(***************************************************************************)
MaxFrames == 3
MaxLenA == 3
MaxT == 3
MaxFramesSum == 5
SyncLen == 12
MaxFramesKey == 3
MaxLyricFrames == 3
MaxRows == 2
MaxEvents == 2
MaxMaskLen == 5
MaxMinLen == 3
MaxSplitFrames == 7
MaxSplitLines == 4
MaxObjs == 3
MaxEdits == 1
MaxAppends == 3

(***************************************************************************)
(* Generic helpers.                                                        *)
(***************************************************************************)
None == <<>>
Some(v) == <<v>>
IsNone(x) == x = <<>>
Val(x) == x[1]
\* a list comprehension, materialised as a sequence
List(f) == f \o <<>>

Abs(x) == IF x < 0 THEN -x ELSE x
Max2(a, b) == IF a >= b THEN a ELSE b
Min2(a, b) == IF a <= b THEN a ELSE b
Sign(x) == IF x > 0 THEN 1 ELSE IF x < 0 THEN -1 ELSE 0

\* floor(n / d) for d > 0 and any integer n
FloorDiv(n, d) == IF n >= 0 THEN n \div d ELSE -((-n + d - 1) \div d)
\* ceil(n / d) for d > 0
CeilDiv(n, d) == -FloorDiv(-n, d)
\* Python round(): n / d rounded to the nearest integer, ties to even
RoundHalfEven(n, d) ==
    LET q == FloorDiv(n, d)
        r == n - q * d
    IN  IF 2 * r < d THEN q
        ELSE IF 2 * r > d THEN q + 1
        ELSE IF q % 2 = 0 THEN q ELSE q + 1

\* Python sequence indexing with a 0-based, possibly negative index
PyIndex(s, i) == IF i < 0 THEN s[Len(s) + i + 1] ELSE s[i + 1]
\* Python slice s[a:b] for 0 <= a, b (clamped to the sequence)
PySlice(s, a, b) ==
    LET lo == Min2(a, Len(s))
        hi == Min2(b, Len(s))
    IN  IF hi <= lo THEN <<>> ELSE SubSeq(s, lo + 1, hi)

RECURSIVE SeqSum(_)
SeqSum(s) == IF s = <<>> THEN 0 ELSE Head(s) + SeqSum(Tail(s))

RECURSIVE SeqsOver(_, _)
\* all sequences of length exactly n over the set S
SeqsOver(S, n) ==
    IF n = 0 THEN {<<>>}
    ELSE {Append(s, x) : s \in SeqsOver(S, n - 1), x \in S}

SeqsUpTo(S, n) == UNION {SeqsOver(S, k) : k \in 0..n}

NonDecreasing(t) == \A i \in 1..(Len(t) - 1) : t[i] <= t[i + 1]

(***************************************************************************)
(* math.log2 in cents: 1200 * log2(u / r) for u, r > 0.                    *)
(***************************************************************************)
FixOne == 2 ^ 14
FracBitCount == 2 ^ 3

RECURSIVE Octave(_, _)
\* the integer k with r * 2^k <= u < r * 2^(k+1)
Octave(u, r) ==
    IF u >= 2 * r THEN Octave(u, 2 * r) + 1
    ELSE IF u < r THEN Octave(2 * u, r) - 1
    ELSE 0

RECURSIVE FracBits(_, _, _)
\* binary digits of log2(y / FixOne), y in [FixOne, 2 FixOne), by squaring
FracBits(y, i, acc) ==
    IF i = 0 THEN acc
    ELSE LET y2 == (y * y) \div FixOne
         IN  IF y2 >= 2 * FixOne
             THEN FracBits(y2 \div 2, i - 1, 2 * acc + 1)
             ELSE FracBits(y2, i - 1, 2 * acc)

Log2Cents(u, r) ==
    LET k == Octave(u, r)
        un == IF k < 0 THEN u * (2 ^ (-k)) ELSE u
        rn == IF k > 0 THEN r * (2 ^ k) ELSE r
        y0 == (un * FixOne) \div rn
        acc == FracBits(y0, FracBitCount, 0)
    IN  1200 * k + RoundHalfEven(1200 * acc, 2 ^ FracBitCount)

(***************************************************************************)
(* tools/02_compare_with_reference.py                                      *)
(***************************************************************************)
PITCH_LOW_TH_CENTS == -35
PITCH_HIGH_TH_CENTS == 35
MIN_DURATION_MS == 200

RECURSIVE AdvanceJ(_, _, _)
\* while j + 1 < len(t_usr) and t_usr[j + 1] <= tr: j += 1
AdvanceJ(t_usr, tr, j) ==
    IF j + 1 < Len(t_usr) /\ PyIndex(t_usr, j + 1) <= tr
    THEN AdvanceJ(t_usr, tr, j + 1)
    ELSE j

\* mutant of PickNearer: the following frame is never considered
PickNearer_Never(t_usr, tr, j) == j

\* if j + 1 < len(t_usr) and |t_usr[j+1] - tr| < |t_usr[j] - tr|: j + 1 else j
PickNearer(t_usr, tr, j) ==
    IF j + 1 < Len(t_usr)
       /\ Abs(PyIndex(t_usr, j + 1) - tr) < Abs(PyIndex(t_usr, j) - tr)
    THEN j + 1
    ELSE j

RECURSIVE SweepAlign(_, _, _, _, _)
\* the for-loop of align_user_to_ref: j persists across reference frames
SweepAlign(t_ref, t_usr, i, j, idx) ==
    IF i > Len(t_ref) THEN idx
    ELSE LET j2 == AdvanceJ(t_usr, t_ref[i], j)
         IN  SweepAlign(t_ref, t_usr, i + 1, j2,
                        Append(idx, Some(PickNearer(t_usr, t_ref[i], j2))))

\* mutant of align_user_to_ref: an empty user track yields an empty list
align_user_to_ref_EmptyList(t_ref, t_usr) ==
    IF t_usr = <<>>
    THEN <<>>
    ELSE SweepAlign(t_ref, t_usr, 1, 0, <<>>)

align_user_to_ref(t_ref, t_usr) ==
    IF t_usr = <<>>
    THEN List([i \in 1..Len(t_ref) |-> None])
    ELSE SweepAlign(t_ref, t_usr, 1, 0, <<>>)

\* f_usr_on_ref = [f_usr[i] if (i is not None and 0 <= i < len(f_usr)) else None]
UserOnRef02(f_usr, ch) ==
    List([n \in 1..Len(ch) |->
        IF ~IsNone(ch[n]) /\ 0 <= Val(ch[n]) /\ Val(ch[n]) < Len(f_usr)
        THEN PyIndex(f_usr, Val(ch[n]))
        ELSE None])

\* mutant of hz_to_cents_ratio: the ratio is taken upside down
hz_to_cents_ratio_Inverted(f_usr, f_ref) ==
    IF IsNone(f_usr) \/ IsNone(f_ref) THEN None
    ELSE IF Val(f_usr) <= 0 \/ Val(f_ref) <= 0 THEN None
    ELSE Some(Log2Cents(Val(f_ref), Val(f_usr)))

hz_to_cents_ratio(f_usr, f_ref) ==
    IF IsNone(f_usr) \/ IsNone(f_ref) THEN None
    ELSE IF Val(f_usr) <= 0 \/ Val(f_ref) <= 0 THEN None
    ELSE Some(Log2Cents(Val(f_usr), Val(f_ref)))

RECURSIVE SegmentScan(_, _, _, _, _)
\* the loop of segment_mask over mask + [False]; i is the 0-based index,
\* s the optional start of the open run
SegmentScan(m, min_len_frames, i, s, out) ==
    IF i >= Len(m) THEN out
    ELSE LET v == m[i + 1]
         IN  IF v /\ IsNone(s)
             THEN SegmentScan(m, min_len_frames, i + 1, Some(i), out)
             ELSE IF ~v /\ ~IsNone(s)
             THEN SegmentScan(m, min_len_frames, i + 1, None,
                      IF i - Val(s) >= min_len_frames
                      THEN Append(out, <<Val(s), i>>)
                      ELSE out)
             ELSE SegmentScan(m, min_len_frames, i + 1, s, out)

segment_mask(mask, min_len_frames) ==
    SegmentScan(Append(mask, FALSE), min_len_frames, 0, None, <<>>)

\* fps = sr_r / float(hop_r) if hop_r else 172.0, as a fraction <<num, den>>
Fps02(sr, hop) == IF hop # 0 THEN <<sr, hop>> ELSE <<172, 1>>

\* min_frames = max(1, int(round(MIN_DURATION_SEC * fps)))
MinFrames02(sr, hop) ==
    Max2(1, RoundHalfEven(MIN_DURATION_MS * Fps02(sr, hop)[1],
                          1000 * Fps02(sr, hop)[2]))

\* present values of a list of optional values
RECURSIVE Present(_)
Present(s) ==
    IF s = <<>> THEN <<>>
    ELSE IF IsNone(Head(s)) THEN Present(Tail(s))
    ELSE <<Val(Head(s))>> \o Present(Tail(s))

\* mutant of MaxByAbs: the first value of the segment
MaxByAbs_Head(seg) == seg[1]

RECURSIVE MaxByAbs(_)
\* max(seg, key=abs): the first element of greatest absolute value
MaxByAbs(seg) ==
    IF Len(seg) = 1 THEN seg[1]
    ELSE LET rest == MaxByAbs(Tail(seg))
         IN  IF Abs(rest) > Abs(Head(seg)) THEN rest ELSE Head(seg)

\* one pitch event of main(): start = t_ref[s], end = t_ref[e - 1]
PitchEvent02(t_ref, cs, se, kind) ==
    LET seg == Present(PySlice(cs, se[1], se[2]))
    IN  [start |-> PyIndex(t_ref, se[1]),
         end |-> PyIndex(t_ref, se[2] - 1),
         type |-> kind,
         avg_cents |-> IF seg # <<>>
                       THEN Some(RoundHalfEven(SeqSum(seg), Len(seg)))
                       ELSE Some(0),
         max_cents |-> IF seg # <<>> THEN Some(MaxByAbs(seg)) ELSE Some(0)]

\* mutant of IsLow02: the magnitude is tested instead of the signed value
IsLow02_Magnitude(cs) ==
    List([i \in 1..Len(cs) |->
        ~IsNone(cs[i]) /\ Abs(Val(cs[i])) > -PITCH_LOW_TH_CENTS])
IsLow02(cs) ==
    List([i \in 1..Len(cs) |->
        ~IsNone(cs[i]) /\ Val(cs[i]) < PITCH_LOW_TH_CENTS])
IsHigh02(cs) ==
    List([i \in 1..Len(cs) |->
        ~IsNone(cs[i]) /\ Val(cs[i]) > PITCH_HIGH_TH_CENTS])

\* unvoiced_miss = [(r is not None and r > 0) and (u is None or u <= 0)
\*                  for r, u in zip(f_ref, f_usr_on_ref)]
UnvoicedMiss02(f_ref, f_usr_on_ref) ==
    List([i \in 1..Min2(Len(f_ref), Len(f_usr_on_ref)) |->
        (~IsNone(f_ref[i]) /\ Val(f_ref[i]) > 0)
        /\ (IsNone(f_usr_on_ref[i]) \/ Val(f_usr_on_ref[i]) <= 0)])

\* cents = [hz_to_cents_ratio(u, r) for u, r in zip(f_usr_on_ref, f_ref)]
Cents02(f_usr_on_ref, f_ref) ==
    List([i \in 1..Min2(Len(f_usr_on_ref), Len(f_ref)) |->
        hz_to_cents_ratio(f_usr_on_ref[i], f_ref[i])])

Events02(t_ref, cs, min_frames) ==
    LET lows == segment_mask(IsLow02(cs), min_frames)
        highs == segment_mask(IsHigh02(cs), min_frames)
    IN  List([i \in 1..Len(lows) |-> PitchEvent02(t_ref, cs, lows[i], "pitch_low")])
        \o
        List([i \in 1..Len(highs) |-> PitchEvent02(t_ref, cs, highs[i], "pitch_high")])


(***************************************************************************)
(* Nearest-frame lookup by numpy.searchsorted, written three times in the  *)
(* sources (05 align_on_ref, 08 crosscorr_offset, 08 compare_make_events). *)
(***************************************************************************)
RECURSIVE BisectLeft(_, _, _, _)
\* numpy.searchsorted(t, x) (side='left') on a sorted array: binary search
\* over the 0-based half-open range [lo, hi)
BisectLeft(t, x, lo, hi) ==
    IF lo >= hi THEN lo
    ELSE LET mid == (lo + hi) \div 2
         IN  IF PyIndex(t, mid) < x
             THEN BisectLeft(t, x, mid + 1, hi)
             ELSE BisectLeft(t, x, lo, mid)

\* numpy.clip(x, lo, hi) = minimum(maximum(x, lo), hi), also when lo > hi
Clip(x, lo, hi) == Min2(Max2(x, lo), hi)

\* mutant of NearestIdx: a reference time midway between two user frames
\* goes to the later one
NearestIdx_TieLater(t_usr, tr) ==
    LET idx == Clip(BisectLeft(t_usr, tr, 0, Len(t_usr)), 1, Len(t_usr) - 1)
    IN  IF Abs(PyIndex(t_usr, idx - 1) - tr) < Abs(PyIndex(t_usr, idx) - tr)
        THEN idx - 1
        ELSE idx

\* idx = clip(searchsorted(t_usr, tr), 1, len(t_usr) - 1);
\* where(|t_usr[idx-1] - tr| <= |t_usr[idx] - tr|, idx - 1, idx)
\* (t_usr non-empty; an index of -1 wraps to the last frame as in numpy)
NearestIdx(t_usr, tr) ==
    LET idx == Clip(BisectLeft(t_usr, tr, 0, Len(t_usr)), 1, Len(t_usr) - 1)
    IN  IF Abs(PyIndex(t_usr, idx - 1) - tr) <= Abs(PyIndex(t_usr, idx) - tr)
        THEN idx - 1
        ELSE idx

\* indexing the empty user array with idx - 1 = -2 raises IndexError
AlignRaises(t_ref, t_usr) == t_usr = <<>> /\ t_ref # <<>>

\* tools/05_overall_summary.py align_on_ref (defined when it does not raise)
align_on_ref(t_ref, t_usr) ==
    List([i \in 1..Len(t_ref) |-> Some(NearestIdx(t_usr, t_ref[i]))])

\* fU[choose] / mU[choose]: fancy indexing with the chosen indices
TakeAt(f, ch) == List([i \in 1..Len(ch) |-> PyIndex(f, Val(ch[i]))])

(***************************************************************************)
(* tools/08_autosync_offset.py: compare_make_events                        *)
(***************************************************************************)
TOL_CENTS_08 == 40

\* choose of compare_make_events (same three lines as align_on_ref)
Choose08(tRef, tUsr) ==
    List([i \in 1..Len(tRef) |-> Some(NearestIdx(tUsr, tRef[i]))])

\* mask = ~isnan(fR) & ~isnan(fU2) & (fR > 0) & (fU2 > 0);
\* cents[mask] = 1200 * log2(fU2 / fR), NaN elsewhere
Cents08(fRef, fU2) ==
    List([i \in 1..Len(fRef) |->
        IF ~IsNone(fRef[i]) /\ ~IsNone(fU2[i])
           /\ Val(fRef[i]) > 0 /\ Val(fU2[i]) > 0
        THEN Some(Log2Cents(Val(fU2[i]), Val(fRef[i])))
        ELSE None])

\* min_frames = max(1, int(math.ceil(min_event_sec * fps))), fps = sr / hop
MinFrames08(sr, hop, min_event_ms) ==
    Max2(1, CeilDiv(min_event_ms * sr, 1000 * hop))

RECURSIVE SegFromMaskScan(_, _, _, _, _)
\* the loop of seg_from_mask: a run is closed at a false flag or at the
\* last index
SegFromMaskScan(msk, min_frames, i, s, ev) ==
    IF i >= Len(msk) THEN ev
    ELSE LET flag == msk[i + 1]
             s1 == IF flag /\ IsNone(s) THEN Some(i) ELSE s
             closes == (~flag \/ i = Len(msk) - 1) /\ ~IsNone(s1)
             e == IF ~flag THEN i ELSE i + 1
         IN  IF closes
             THEN SegFromMaskScan(msk, min_frames, i + 1, None,
                      IF e - Val(s1) >= min_frames
                      THEN Append(ev, <<Val(s1), e>>)
                      ELSE ev)
             ELSE SegFromMaskScan(msk, min_frames, i + 1, s1, ev)

\* mutant of seg_from_mask: a run is closed at a false flag only
seg_from_mask_NoTail(msk, min_frames) ==
    SegmentScan(msk, min_frames, 0, None, <<>>)

seg_from_mask(msk, min_frames) == SegFromMaskScan(msk, min_frames, 0, None, <<>>)

RECURSIVE MaxOfAbs(_)
MaxOfAbs(seg) ==
    IF Len(seg) = 1 THEN Abs(seg[1])
    ELSE Max2(Abs(Head(seg)), MaxOfAbs(Tail(seg)))

\* start = tr[0], end = tr[-1] with tr = tR[s:e];
\* avg = nanmean(seg), max = nanmax(|seg|) * sign(nanmean(seg))
PitchEvent08(tRef, cs, se, kind) ==
    LET seg == Present(PySlice(cs, se[1], se[2]))
    IN  [start |-> PyIndex(tRef, se[1]),
         end |-> PyIndex(tRef, se[2] - 1),
         type |-> kind,
         avg_cents |-> Some(RoundHalfEven(SeqSum(seg), Len(seg))),
         max_cents |-> Some(MaxOfAbs(seg) * Sign(SeqSum(seg)))]

MissEvent08(tRef, se) ==
    [start |-> PyIndex(tRef, se[1]),
     end |-> PyIndex(tRef, se[2] - 1),
     type |-> "unvoiced_miss",
     avg_cents |-> None,
     max_cents |-> None]

RECURSIVE InsertByStart(_, _)
\* stable insertion of event e into the start-sorted list s
InsertByStart(s, e) ==
    IF s = <<>> THEN <<e>>
    ELSE IF Head(s).start <= e.start
    THEN <<Head(s)>> \o InsertByStart(Tail(s), e)
    ELSE <<e>> \o s

RECURSIVE SortByStart(_)
\* ev.sort(key=lambda x: x["start"]): a stable sort
SortByStart(s) ==
    IF s = <<>> THEN <<>>
    ELSE InsertByStart(SortByStart(SubSeq(s, 1, Len(s) - 1)), s[Len(s)])

Lo08(cs, tol) == List([i \in 1..Len(cs) |-> ~IsNone(cs[i]) /\ Val(cs[i]) < -tol])
Hi08(cs, tol) == List([i \in 1..Len(cs) |-> ~IsNone(cs[i]) /\ Val(cs[i]) > tol])
\* uv = ~isnan(fR) & (fR > 0) & (isnan(fU2) | (fU2 <= 0))
Uv08(fRef, fU2) ==
    List([i \in 1..Len(fRef) |->
        (~IsNone(fRef[i]) /\ Val(fRef[i]) > 0)
        /\ (IsNone(fU2[i]) \/ Val(fU2[i]) <= 0)])

\* the events of compare_make_events from the aligned user track
EventsFrom08(tRef, fRef, fU2, sr, hop, tol, min_event_ms) ==
    LET cs == Cents08(fRef, fU2)
        mf == MinFrames08(sr, hop, min_event_ms)
        los == seg_from_mask(Lo08(cs, tol), mf)
        his == seg_from_mask(Hi08(cs, tol), mf)
        uvs == seg_from_mask(Uv08(fRef, fU2), mf)
    IN  SortByStart(
            List([i \in 1..Len(los) |-> PitchEvent08(tRef, cs, los[i], "pitch_low")])
            \o
            List([i \in 1..Len(his) |-> PitchEvent08(tRef, cs, his[i], "pitch_high")])
            \o
            List([i \in 1..Len(uvs) |-> MissEvent08(tRef, uvs[i])]))


(***************************************************************************)
(* Statistics helpers (numpy nanmedian / nanstd, Python sorted).           *)
(***************************************************************************)
RECURSIVE InsertInt(_, _)
InsertInt(s, x) ==
    IF s = <<>> THEN <<x>>
    ELSE IF Head(s) <= x THEN <<Head(s)>> \o InsertInt(Tail(s), x)
    ELSE <<x>> \o s

RECURSIVE SortInts(_)
SortInts(s) == IF s = <<>> THEN <<>> ELSE InsertInt(SortInts(Tail(s)), Head(s))

\* twice the median of a non-empty list (the mean of the two middle values
\* when the length is even)
Median2(xs) ==
    LET srt == SortInts(xs)
        n == Len(xs)
    IN  IF n % 2 = 1 THEN 2 * srt[(n + 1) \div 2]
        ELSE srt[n \div 2] + srt[n \div 2 + 1]

RECURSIVE SumSq(_)
SumSq(s) == IF s = <<>> THEN 0 ELSE Head(s) * Head(s) + SumSq(Tail(s))

\* population standard deviation of a non-empty list > limit
StdGreater(xs, limit) ==
    Len(xs) * SumSq(xs) - SeqSum(xs) * SeqSum(xs)
        > limit * limit * Len(xs) * Len(xs)

\* the number of true entries of a boolean array (numpy sum / mean numerator)
CountTrue(m) == Cardinality({i \in 1..Len(m) : m[i]})

VerdictSet ==
    {"mostly_ok", "needs_work", "overall_low", "overall_high",
     "inconsistent", "insufficient_data"}

(***************************************************************************)
(* tools/05_overall_summary.py                                             *)
(***************************************************************************)
TOL_CENTS == 40
MIN_SECONDS == 15

\* mask = ~isnan(fR) & ~isnan(fU_on_R) & (fR > 0) & (fU_on_R > 0);
\* cents = 1200 * log2(f_usr / f_ref) over the masked frames only
Cents05(fRef, fUR) ==
    Present(List([i \in 1..Len(fRef) |->
        IF ~IsNone(fRef[i]) /\ ~IsNone(fUR[i])
           /\ Val(fRef[i]) > 0 /\ Val(fUR[i]) > 0
        THEN Some(Log2Cents(Val(fUR[i]), Val(fRef[i])))
        ELSE None]))

\* within = |cents| <= TOL, low = cents < -TOL, high = cents > TOL
NWithin05(cs) == CountTrue(List([i \in 1..Len(cs) |-> Abs(cs[i]) <= TOL_CENTS]))
\* mutant of NLow05: the sign of the tolerance is dropped
NLow05_NoSign(cs) ==
    CountTrue(List([i \in 1..Len(cs) |-> cs[i] < TOL_CENTS]))
NLow05(cs) == CountTrue(List([i \in 1..Len(cs) |-> cs[i] < -TOL_CENTS]))
NHigh05(cs) == CountTrue(List([i \in 1..Len(cs) |-> cs[i] > TOL_CENTS]))

\* seconds >= MIN_SECONDS and cents.size, with seconds = len(t_ref) / fps
\* and fps = srR / hopR
Enough05(cs, sr, hop) == Len(cs) * hop >= MIN_SECONDS * sr /\ Len(cs) > 0

\* mutant of Verdict05: the high rule is tried before the low rule
Verdict05_HighFirst(cs, sr, hop) ==
    IF ~Enough05(cs, sr, hop) THEN "insufficient_data"
    ELSE LET n == Len(cs)
             bias2 == Median2(cs)
             diff == NHigh05(cs) - NLow05(cs)
         IN  IF bias2 >= 2 * 20 \/ 100 * diff >= 15 * n
             THEN "overall_high"
             ELSE IF bias2 <= -2 * 20 \/ 100 * diff <= -15 * n
             THEN "overall_low"
             ELSE IF 100 * NWithin05(cs) < 55 * n \/ StdGreater(cs, 120)
             THEN "inconsistent"
             ELSE "mostly_ok"

\* mutant of Verdict05: a final needs_work rule below 85% within tolerance
Verdict05_NeedsWork(cs, sr, hop) ==
    IF ~Enough05(cs, sr, hop) THEN "insufficient_data"
    ELSE LET n == Len(cs)
             bias2 == Median2(cs)
             diff == NHigh05(cs) - NLow05(cs)
         IN  IF bias2 <= -2 * 20 \/ 100 * diff <= -15 * n
             THEN "overall_low"
             ELSE IF bias2 >= 2 * 20 \/ 100 * diff >= 15 * n
             THEN "overall_high"
             ELSE IF 100 * NWithin05(cs) < 55 * n \/ StdGreater(cs, 120)
             THEN "inconsistent"
             ELSE IF 100 * NWithin05(cs) >= 85 * n
             THEN "mostly_ok"
             ELSE "needs_work"

\* the rules of step 6; bias = med_c (never NaN when cents.size > 0),
\* diff_ratio = p_high - p_low
Verdict05(cs, sr, hop) ==
    IF ~Enough05(cs, sr, hop) THEN "insufficient_data"
    ELSE LET n == Len(cs)
             bias2 == Median2(cs)
             diff == NHigh05(cs) - NLow05(cs)
         IN  IF bias2 <= -2 * 20 \/ 100 * diff <= -15 * n
             THEN "overall_low"
             ELSE IF bias2 >= 2 * 20 \/ 100 * diff >= 15 * n
             THEN "overall_high"
             ELSE IF 100 * NWithin05(cs) < 55 * n \/ StdGreater(cs, 120)
             THEN "inconsistent"
             ELSE "mostly_ok"

\* round(p, digits) of the fraction k / n as an integer count of 10^-digits,
\* None when the array is empty (nanmean of an empty array is NaN)
Percent(k, n, scale) == IF n = 0 THEN None ELSE Some(RoundHalfEven(scale * k, n))

\* the sum of end - start over the events of one type (ms); an event
\* without "end" counts from start to start
RECURSIVE DurSum(_, _)
DurSum(ev, evtype) ==
    IF ev = <<>> THEN 0
    ELSE (IF IsNone(evtype) \/ Head(ev).type = Val(evtype)
          THEN (IF IsNone(Head(ev).end) THEN Head(ev).start
                ELSE Val(Head(ev).end)) - Head(ev).start
          ELSE 0) + DurSum(Tail(ev), evtype)

\* dur_from_events(ev, evtype): 0.0 for None, else max(0.0, s)
dur_from_events(ev, evtype) ==
    IF IsNone(ev) THEN 0
    ELSE IF DurSum(Val(ev), evtype) > 0 THEN DurSum(Val(ev), evtype) ELSE 0

\* the truth value Python gives to ev in "if ev": None and [] are false
Truthy(ev) == ~IsNone(ev) /\ Val(ev) # <<>>

\* uv_sec = dur_from_events(ev, "unvoiced_miss") if ev else 0.0
UvSec05(ev) ==
    IF Truthy(ev) THEN dur_from_events(ev, Some("unvoiced_miss")) ELSE 0

\* "unvoiced_miss_seconds": round(uv_sec, 2) if ev else None, in hundredths
\* of a second
UnvoicedMissSeconds05(ev) ==
    IF Truthy(ev) THEN Some(RoundHalfEven(UvSec05(ev), 10)) ELSE None

\* the summary object written by main()
Summary05(fRef, fUR, sr, hop, ev) ==
    LET cs == Cents05(fRef, fUR)
        n == Len(cs)
    IN  [frames |-> n,
         seconds_ms |-> RoundHalfEven(n * hop * 1000, sr),
         denom |-> n,
         n_within |-> NWithin05(cs),
         n_low |-> NLow05(cs),
         n_high |-> NHigh05(cs),
         pscale |-> 1000,
         percent_within_tol |-> Percent(NWithin05(cs), n, 1000),
         percent_low |-> Percent(NLow05(cs), n, 1000),
         percent_high |-> Percent(NHigh05(cs), n, 1000),
         stat_values |-> cs,
         median2 |-> IF n > 0 THEN Some(Median2(cs)) ELSE None,
         std_gt_120 |-> n > 0 /\ StdGreater(cs, 120),
         unvoiced_miss_seconds |-> UnvoicedMissSeconds05(ev),
         verdict |-> Verdict05(cs, sr, hop)]

(***************************************************************************)
(* tools/06_key_offset_check.py                                            *)
(* The object written to key_offset.json, without its Japanese texts and   *)
(* its standard deviations.  Values rounded to one decimal are kept as     *)
(* integers in tenths of a cent.                                           *)
(***************************************************************************)
\* key_offset.json before main() has written it
NoKeyOffset == <<>>

\* mask = ~isnan(fR) & ~isnan(fU_on_R) & (fR > 0) & (fU_on_R > 0);
\* cents = 1200.0 * np.log2(fU_on_R[mask] / fR[mask])
Cents06(fRef, fUR) ==
    Present(List([i \in 1..Len(fRef) |->
        IF ~IsNone(fRef[i]) /\ ~IsNone(fUR[i])
           /\ Val(fRef[i]) > 0 /\ Val(fUR[i]) > 0
        THEN Some(Log2Cents(Val(fUR[i]), Val(fRef[i])))
        ELSE None]))

\* semitone_offset = int(round(med / 100.0)), med given as twice its value
SemitoneOffset06(med2) == RoundHalfEven(med2, 2 * 100)
\* k_oct = int(round(med / 1200.0))
OctaveK06(med2) == RoundHalfEven(med2, 2 * 1200)
\* wrapped = cents - (k_oct * 1200.0)
Wrapped06(cs, k) == List([i \in 1..Len(cs) |-> cs[i] - k * 1200])
\* the number of frames with np.abs(wrapped) <= 40.0
Within40c06(ws) == CountTrue(List([i \in 1..Len(ws) |-> Abs(ws[i]) <= 40]))

\* mutant of LikelyOctave06: the test abs(k_oct) >= 1 is dropped
LikelyOctave06_AnyK(med2, k) == Abs(med2 - 2 * 1200 * k) < 2 * 200
\* likely_octave = (abs(k_oct) >= 1) and (abs(med - 1200.0 * k_oct) < 200.0)
LikelyOctave06(med2, k) ==
    Abs(k) >= 1 /\ Abs(med2 - 2 * 1200 * k) < 2 * 200

\* mutant of KeyOffset06: the no-overlap object also carries frames = 0
KeyOffset06_FramesZero(fRef, fUR) ==
    LET cs == Cents06(fRef, fUR)
        med2 == Median2(cs)
        k == OctaveK06(med2)
        ws == Wrapped06(cs, k)
    IN  IF cs = <<>>
        THEN [error |-> "no_voiced_overlap", frames |-> 0]
        ELSE [frames |-> Len(cs),
              median_cents_x10 |-> RoundHalfEven(10 * med2, 2),
              mean_cents_x10 |-> RoundHalfEven(10 * SeqSum(cs), Len(cs)),
              semitone_offset |-> SemitoneOffset06(med2),
              semitone_offset_cents |-> SemitoneOffset06(med2) * 100,
              octave_k |-> k,
              wrapped_median_cents_x10 |-> RoundHalfEven(10 * Median2(ws), 2),
              wrapped_within_40c |-> Percent(Within40c06(ws), Len(ws), 1000),
              verdict |-> IF LikelyOctave06(med2, k)
                          THEN "octave_shift" ELSE "key_shift"]

\* out: {"error": "no_voiced_overlap"} when the mask is empty, the key
\* offset object otherwise
KeyOffset06(fRef, fUR) ==
    LET cs == Cents06(fRef, fUR)
        med2 == Median2(cs)
        k == OctaveK06(med2)
        ws == Wrapped06(cs, k)
    IN  IF cs = <<>>
        THEN [error |-> "no_voiced_overlap"]
        ELSE [frames |-> Len(cs),
              median_cents_x10 |-> RoundHalfEven(10 * med2, 2),
              mean_cents_x10 |-> RoundHalfEven(10 * SeqSum(cs), Len(cs)),
              semitone_offset |-> SemitoneOffset06(med2),
              semitone_offset_cents |-> SemitoneOffset06(med2) * 100,
              octave_k |-> k,
              wrapped_median_cents_x10 |-> RoundHalfEven(10 * Median2(ws), 2),
              wrapped_within_40c |-> Percent(Within40c06(ws), Len(ws), 1000),
              verdict |-> IF LikelyOctave06(med2, k)
                          THEN "octave_shift" ELSE "key_shift"]

(***************************************************************************)
(* tools/01_make_events_and_summary.py                                     *)
(***************************************************************************)
TOL_01 == 40

\* n = min(len(ref_tr), len(usr_tr))
N01(fRef, fUsr) == Min2(Len(fRef), Len(fUsr))

Voiced01(fRef, fUsr, i) == ~IsNone(fRef[i]) /\ ~IsNone(fUsr[i])

\* cents(uf, rf) = 1200 * log2(uf / rf) raises ZeroDivisionError when rf = 0
\* and ValueError when uf / rf <= 0; the sr/hop check raises RuntimeError
Raises01(fRef, fUsr, sr, hop, srUsr, hopUsr) ==
    \/ sr # srUsr
    \/ hop # hopUsr
    \/ \E i \in 1..N01(fRef, fUsr) :
          /\ Voiced01(fRef, fUsr, i)
          /\ (Val(fRef[i]) = 0 \/ Val(fUsr[i]) * Val(fRef[i]) <= 0)

\* cents_list: the cents of a voiced frame, 0.0 for every other frame
CentsList01(fRef, fUsr) ==
    List([i \in 1..N01(fRef, fUsr) |->
        IF Voiced01(fRef, fUsr, i)
        THEN Log2Cents(Val(fUsr[i]), Val(fRef[i]))
        ELSE 0])

\* low_flags / high_flags: c < -tol, c > tol on voiced frames (cl = cents_list)
LowFlags01(fRef, fUsr, cl) ==
    List([i \in 1..N01(fRef, fUsr) |->
        Voiced01(fRef, fUsr, i) /\ cl[i] < -TOL_01])
HighFlags01(fRef, fUsr, cl) ==
    List([i \in 1..N01(fRef, fUsr) |->
        Voiced01(fRef, fUsr, i) /\ cl[i] > TOL_01])
\* if abs(c) <= tol: within += 1
WithinFlags01(fRef, fUsr, cl) ==
    List([i \in 1..N01(fRef, fUsr) |->
        Voiced01(fRef, fUsr, i) /\ Abs(cl[i]) <= TOL_01])
MissFlags01(fRef, fUsr) ==
    List([i \in 1..N01(fRef, fUsr) |-> ~IsNone(fRef[i]) /\ IsNone(fUsr[i])])

RECURSIVE RunEnd(_, _)
\* while j < n and flags[j]: j += 1   (0-based j)
RunEnd(flags, j) ==
    IF j < Len(flags) /\ flags[j + 1] THEN RunEnd(flags, j + 1) ELSE j

RECURSIVE MinOf(_)
MinOf(s) == IF Len(s) = 1 THEN s[1] ELSE Min2(Head(s), MinOf(Tail(s)))
RECURSIVE MaxOf(_)
MaxOf(s) == IF Len(s) = 1 THEN s[1] ELSE Max2(Head(s), MaxOf(Tail(s)))

\* one event of group_events for the run [i, j): start = times[i][0],
\* end = times[j-1][1] = t + hop / sr
Event01(i, j, tRef, period, kind, cents_values) ==
    LET seg == IF IsNone(cents_values) THEN <<>>
               ELSE PySlice(Val(cents_values), i, j)
    IN  [start |-> PyIndex(tRef, i),
         end |-> PyIndex(tRef, j - 1) + period,
         type |-> kind,
         avg_cents |-> IF seg # <<>>
                       THEN Some(RoundHalfEven(SeqSum(seg), Len(seg)))
                       ELSE None,
         max_cents |-> IF seg = <<>> THEN None
                       ELSE IF kind = "pitch_low" THEN Some(MinOf(seg))
                       ELSE IF kind = "pitch_high" THEN Some(MaxOf(seg))
                       ELSE None]

RECURSIVE GroupScan(_, _, _, _, _, _, _)
GroupScan(flags, tRef, period, kind, cents_values, i, evs) ==
    IF i >= Len(flags) THEN evs
    ELSE IF ~flags[i + 1]
    THEN GroupScan(flags, tRef, period, kind, cents_values, i + 1, evs)
    ELSE LET j == RunEnd(flags, i)
         IN  GroupScan(flags, tRef, period, kind, cents_values, j,
                       Append(evs, Event01(i, j, tRef, period, kind,
                                           cents_values)))

group_events(flags, tRef, period, kind, cents_values) ==
    GroupScan(flags, tRef, period, kind, cents_values, 0, <<>>)

Events01(tRef, fRef, fUsr, period) ==
    LET cl == CentsList01(fRef, fUsr)
    IN  group_events(LowFlags01(fRef, fUsr, cl), tRef, period, "pitch_low",
                     Some(cl))
        \o group_events(HighFlags01(fRef, fUsr, cl), tRef, period,
                        "pitch_high", Some(cl))
        \o group_events(MissFlags01(fRef, fUsr), tRef, period,
                        "unvoiced_miss", None)

\* voiced_cents = [c for c in cents_list if c != 0.0]
VoicedCents01(cl) == SelectSeq(cl, LAMBDA c : c # 0)

\* round(x / n, 4) if n else 0.0, as a count of 10^-4
Percent01(k, n) == IF n = 0 THEN Some(0) ELSE Some(RoundHalfEven(10000 * k, n))

\* mostly_ok when the rounded percent_within_tol >= 0.85, else needs_work
Verdict01(pct_within) ==
    IF Val(pct_within) >= 8500 THEN "mostly_ok" ELSE "needs_work"

Summary01(tRef, fRef, fUsr, period) ==
    LET n == N01(fRef, fUsr)
        cl == CentsList01(fRef, fUsr)
        voiced_frames == Cardinality({i \in 1..n : Voiced01(fRef, fUsr, i)})
        within == CountTrue(WithinFlags01(fRef, fUsr, cl))
        nlow == CountTrue(LowFlags01(fRef, fUsr, cl))
        nhigh == CountTrue(HighFlags01(fRef, fUsr, cl))
        vc == VoicedCents01(cl)
    IN  [frames |-> n,
         seconds_ms |-> IF n > 0 THEN tRef[n] + period ELSE 0,
         denom |-> voiced_frames,
         n_within |-> within,
         n_low |-> nlow,
         n_high |-> nhigh,
         pscale |-> 10000,
         percent_within_tol |-> Percent01(within, voiced_frames),
         percent_low |-> Percent01(nlow, voiced_frames),
         percent_high |-> Percent01(nhigh, voiced_frames),
         stat_values |-> vc,
         median2 |-> IF vc # <<>> THEN Some(Median2(vc)) ELSE Some(0),
         std_gt_120 |-> vc # <<>> /\ StdGreater(vc, 120),
         verdict |-> Verdict01(Percent01(within, voiced_frames))]

NoSummary == [verdict |-> "none"]


(***************************************************************************)
(* tools/11_align_lyrics.py                                                *)
(* Lyric times are integers in units of 1/16 ms, so that round(x, 3) has   *)
(* something to round and the midpoints taken by split_or_merge stay       *)
(* whole (input times are multiples of 1/2 ms); written lines are in ms.   *)
(* A row field is [k |-> "absent" | "bad" | "num", v |-> value]: the key   *)
(* is missing, float() raises on it, or it parses to v.                    *)
(***************************************************************************)
TicksPerMs == 2 ^ 4
\* MIN_DUR = 0.40 (seconds)
MIN_DUR_11 == 400 * TicksPerMs
\* GAP_SEC = 0.60 (seconds)
GAP_SEC_11 == 600 * TicksPerMs

\* round(x, 3): to the nearest millisecond.  A value half-way between two
\* milliseconds is held by a double that lies just above or just below the
\* tie (round(0.0315, 3) = 0.032, round(0.4315, 3) = 0.431); up tells which.
Round3(x, up) ==
    LET q == FloorDiv(x, TicksPerMs)
        r == x - q * TicksPerMs
    IN  IF 2 * r < TicksPerMs THEN q
        ELSE IF 2 * r > TicksPerMs THEN q + 1
        ELSE IF up THEN q + 1 ELSE q

RECURSIVE VoicedIdx(_, _)
\* idx = np.where((~np.isnan(f)) & (f > 0))[0], 0-based, from index i on
VoicedIdx(f, i) ==
    IF i >= Len(f) THEN <<>>
    ELSE (IF ~IsNone(f[i + 1]) /\ Val(f[i + 1]) > 0 THEN <<i>> ELSE <<>>)
         \o VoicedIdx(f, i + 1)

RECURSIVE IdxRuns(_, _, _, _)
\* starts = [idx[0]]; for a, b in zip(idx, idx[1:]): if b != a + 1:
\* ends.append(a); starts.append(b); ends.append(idx[-1])
\* (k is the 1-based position in idx, s the start of the open run)
IdxRuns(idx, k, s, out) ==
    IF k = Len(idx) THEN Append(out, <<s, idx[k]>>)
    ELSE IF idx[k + 1] # idx[k] + 1
    THEN IdxRuns(idx, k + 1, idx[k + 1], Append(out, <<s, idx[k]>>))
    ELSE IdxRuns(idx, k + 1, s, out)

\* a segment shorter than MIN_DUR is stretched to s + MIN_DUR
MinLen11(seg) ==
    IF seg[2] - seg[1] < MIN_DUR_11 THEN <<seg[1], seg[1] + MIN_DUR_11>> ELSE seg

\* voiced_segments(t, f, gap_sec): the runs of consecutive voiced frames as
\* (t[first], t[last]); gap_sec is not used by the function
voiced_segments(t, f, gap_sec) ==
    IF t = <<>> \/ f = <<>> THEN <<>>
    ELSE LET idx == VoicedIdx(f, 0)
         IN  IF idx = <<>> THEN <<>>
             ELSE LET runs == IdxRuns(idx, 1, idx[1], <<>>)
                  IN  List([k \in 1..Len(runs) |->
                          MinLen11(<<PyIndex(t, runs[k][1]),
                                     PyIndex(t, runs[k][2])>>)])

\* one normalised row: start / end are kept only when both keys exist;
\* "end" is lost when float(r["end"]) raises, both when float(r["start"]) does
NormRow(r) ==
    LET both == r.start.k # "absent" /\ r.end.k # "absent"
    IN  [text |-> Val(r.text),
         start |-> IF both /\ r.start.k = "num" THEN Some(r.start.v) ELSE None,
         end |-> IF both /\ r.start.k = "num" /\ r.end.k = "num"
                 THEN Some(r.end.v) ELSE None]

RECURSIVE detect_input_rows(_)
\* rows without a "text" key are skipped
detect_input_rows(rs) ==
    IF rs = <<>> THEN <<>>
    ELSE (IF IsNone(Head(rs).text) THEN <<>> ELSE <<NormRow(Head(rs))>>)
         \o detect_input_rows(Tail(rs))

\* has_timed = any(("start" in r or "end" in r) for r in rows)
HasTimed(norm) ==
    \E i \in 1..Len(norm) : ~IsNone(norm[i].start) \/ ~IsNone(norm[i].end)

RECURSIVE TimedRows(_)
\* timed: the rows that have "start"; e = r.get("end", s + MIN_DUR)
TimedRows(norm) ==
    IF norm = <<>> THEN <<>>
    ELSE (IF IsNone(Head(norm).start) THEN <<>>
          ELSE <<[start |-> Val(Head(norm).start),
                  end |-> IF IsNone(Head(norm).end)
                          THEN Val(Head(norm).start) + MIN_DUR_11
                          ELSE Val(Head(norm).end),
                  text |-> Head(norm).text]>>)
         \o TimedRows(Tail(norm))

\* one written line: {"start": round(s, 3), "end": round(e, 3), "text": ...}
Line11(s, e, text, up) ==
    [start |-> Round3(s, up.start), end |-> Round3(e, up.end), text |-> text]

\* assign_from_timed(rows, total_end); total_end is not used by the function
assign_from_timed(norm, total_end, up) ==
    LET timed == SortByStart(TimedRows(norm))
    IN  List([i \in 1..Len(timed) |->
            LET s == timed[i].start
                e0 == IF i < Len(timed)
                      THEN Min2(timed[i].end, timed[i + 1].start)
                      ELSE timed[i].end
                e == IF e0 - s < MIN_DUR_11 THEN s + MIN_DUR_11 ELSE e0
            IN  Line11(s, e, timed[i].text, up)])

\* [(i * dur / n, (i + 1) * dur / n) for i in range(n)]
Uniform11(dur, n) ==
    List([i \in 1..n |-> <<((i - 1) * dur) \div n, (i * dur) \div n>>])

RECURSIVE MergeScan(_, _, _, _, _)
\* the merge loop of split_or_merge: bag collects segments until
\* acc >= ratio = len(segs) / n_lines, or the last segment is reached
MergeScan(segs, n_lines, i, bag, out) ==
    IF i > Len(segs) THEN out
    ELSE LET bag1 == Append(bag, segs[i])
         IN  IF Len(bag1) * n_lines >= Len(segs) \/ i = Len(segs)
             THEN MergeScan(segs, n_lines, i + 1, <<>>,
                      Append(out, MinLen11(<<bag1[1][1], bag1[Len(bag1)][2]>>)))
             ELSE MergeScan(segs, n_lines, i + 1, bag1, out)

RECURSIVE MergeTrim(_, _)
\* while len(out) > n_lines: a = out.pop(); b = out.pop();
\*     out.append((b[0], a[1]))
MergeTrim(out, n_lines) ==
    IF Len(out) <= n_lines THEN out
    ELSE MergeTrim(Append(SubSeq(out, 1, Len(out) - 2),
                          <<out[Len(out) - 1][1], out[Len(out)][2]>>), n_lines)

RECURSIVE MergeFill(_, _)
\* while len(out) < n_lines: halve the last segment
MergeFill(out, n_lines) ==
    IF Len(out) >= n_lines THEN out
    ELSE LET s == out[Len(out)][1]
             e == out[Len(out)][2]
             m == (s + e) \div 2
         IN  MergeFill(SubSeq(out, 1, Len(out) - 1) \o <<<<s, m>>, <<m, e>>>>,
                       n_lines)

\* max(range(len(out)), key=length): the first segment of greatest length
\* (1-based)
Longest(out) ==
    CHOOSE i \in 1..Len(out) :
        /\ \A j \in 1..Len(out) : out[j][2] - out[j][1] <= out[i][2] - out[i][1]
        /\ \A j \in 1..(i - 1) : out[j][2] - out[j][1] < out[i][2] - out[i][1]

RECURSIVE SplitFill(_, _)
\* while len(out) < n_lines: halve the longest segment in place
SplitFill(out, n_lines) ==
    IF Len(out) >= n_lines THEN out
    ELSE LET i == Longest(out)
             s == out[i][1]
             e == out[i][2]
             m == (s + e) \div 2
         IN  SplitFill(SubSeq(out, 1, i - 1) \o <<<<s, m>>, <<m, e>>>>
                           \o SubSeq(out, i + 1, Len(out)), n_lines)

\* split_or_merge(segs, n_lines)
split_or_merge(segs, n_lines) ==
    IF n_lines <= 0 THEN <<>>
    ELSE IF segs = <<>>
    THEN Uniform11(Max2(MIN_DUR_11 * n_lines, 2000 * TicksPerMs * n_lines),
                   n_lines)
    ELSE IF Len(segs) = n_lines THEN segs
    ELSE IF Len(segs) > n_lines
    THEN MergeFill(MergeTrim(MergeScan(segs, n_lines, 1, <<>>, <<>>), n_lines),
                   n_lines)
    ELSE PySlice(SplitFill(segs, n_lines), 0, n_lines)

\* the untimed branch of main(): the lines are laid over the voiced
\* segments, or over max(180 s, 2 n s) when the reference has none
Untimed11(segs, norm, up) ==
    LET n == Len(norm)
        segs1 == IF segs = <<>>
                 THEN Uniform11(Max2(180000 * TicksPerMs, n * 2000 * TicksPerMs), n)
                 ELSE segs
        segs2 == split_or_merge(segs1, n)
    IN  List([i \in 1..Min2(Len(segs2), n) |->
            LET seg == MinLen11(segs2[i])
            IN  Line11(seg[1], seg[2], norm[i].text, up)])

\* "lines" of the object written by main() from the raw rows
Aligned11(t, f, raw, up) ==
    LET total_end == IF t # <<>> THEN t[Len(t)] ELSE 0
        segs == voiced_segments(t, f, GAP_SEC_11)
        norm == detect_input_rows(raw)
    IN  IF HasTimed(norm)
        THEN assign_from_timed(norm,
                 IF total_end > 0 THEN total_end ELSE 180000 * TicksPerMs, up)
        ELSE Untimed11(segs, norm, up)

(***************************************************************************)
(* tools/12_make_subtitles.py and parse_time of tools/10_import_lyrics.py  *)
(* Times are integers in ms.  A timestamp text is the sequence of its      *)
(* ":"-separated parts; a part is the digits before its "." or "," and,    *)
(* when it has one, the digits after it.                                   *)
(***************************************************************************)
\* the output files before main() of 12 has written them
NoSubs == <<>>

RECURSIVE DecDigits(_)
\* the decimal digits of n >= 0, most significant first
DecDigits(n) ==
    IF n < 10 THEN <<n>> ELSE Append(DecDigits(n \div 10), n % 10)

\* f"{n:0wd}": the digits of n, zero padded on the left to at least w digits
Fmt0(n, w) ==
    LET d == DecDigits(n)
        pad == w - Len(d)
    IN  IF pad <= 0 THEN d
        ELSE List([i \in 1..w |-> IF i <= pad THEN 0 ELSE d[i - pad]])

RECURSIVE DigitsVal(_)
\* int() of a digit string
DigitsVal(d) ==
    IF d = <<>> THEN 0
    ELSE 10 * DigitsVal(SubSeq(d, 1, Len(d) - 1)) + d[Len(d)]

RECURSIVE Pow10(_)
Pow10(k) == IF k = 0 THEN 1 ELSE 10 * Pow10(k - 1)

IntPart(d) == [int |-> d, frac |-> None]
FracPart(d, f) == [int |-> d, frac |-> Some(f)]

\* float() of a part, in ms (whole for up to three digits after the point)
FloatMs(part) ==
    DigitsVal(part.int) * 1000
    + (IF IsNone(part.frac) THEN 0
       ELSE (DigitsVal(Val(part.frac)) * 1000) \div Pow10(Len(Val(part.frac))))

\* _sec_to_timestamp_lrc(sec): sec_int = int(sec); mm = sec_int // 60;
\* ss = sec_int % 60; xx = int(round((sec - sec_int) * 100));
\* f"[{mm:02d}:{ss:02d}.{xx:02d}]"
sec_to_timestamp_lrc(ms) ==
    LET sec_int == ms \div 1000
        mm == sec_int \div 60
        ss == sec_int % 60
        xx == RoundHalfEven(ms - sec_int * 1000, 10)
    IN  <<IntPart(Fmt0(mm, 2)), FracPart(Fmt0(ss, 2), Fmt0(xx, 2))>>

\* _sec_to_timestamp_srt(sec): ms = int(round((sec - int(sec)) * 1000));
\* f"{hh:02d}:{mm:02d}:{ss:02d},{ms:03d}"
sec_to_timestamp_srt(ms) ==
    LET sec == ms \div 1000
        msec == ms - sec * 1000
    IN  <<IntPart(Fmt0(sec \div 3600, 2)),
          IntPart(Fmt0((sec % 3600) \div 60, 2)),
          FracPart(Fmt0(sec % 60, 2), Fmt0(msec, 3))>>

\* parse_time(s) of 10: brackets stripped, "," read as ".", split at ":";
\* int() of a part with a fraction raises and the function returns None
parse_time(parts) ==
    IF Len(parts) = 3
    THEN IF ~IsNone(parts[1].frac) \/ ~IsNone(parts[2].frac) THEN None
         ELSE Some(DigitsVal(parts[1].int) * 3600000
                   + DigitsVal(parts[2].int) * 60000 + FloatMs(parts[3]))
    ELSE IF Len(parts) = 2
    THEN IF ~IsNone(parts[1].frac) THEN None
         ELSE Some(DigitsVal(parts[1].int) * 60000 + FloatMs(parts[2]))
    ELSE IF Len(parts) = 1 THEN Some(FloatMs(parts[1]))
    ELSE None

\* _write_lrc(rows): one "[mm:ss.xx]text" line per row
write_lrc(rs) ==
    List([i \in 1..Len(rs) |->
        [tag |-> sec_to_timestamp_lrc(rs[i].start), text |-> rs[i].text]])

\* _write_srt(rows): index, "a --> b", text
write_srt(rs) ==
    List([i \in 1..Len(rs) |->
        [index |-> i,
         a |-> sec_to_timestamp_srt(rs[i].start),
         b |-> sec_to_timestamp_srt(rs[i].end),
         text |-> rs[i].text]])

\* _write_overlay_json(rows)
write_overlay_json(rs) ==
    List([i \in 1..Len(rs) |->
        [s |-> rs[i].start, e |-> rs[i].end, t |-> rs[i].text]])

(***************************************************************************)
(* tools/08_autosync_offset.py: autosync                                   *)
(***************************************************************************)
MIN_OVERLAP == 10
MIN_DUR_MS == 200
DEFAULT_DT2 == 20

\* voiced_mask(f) = ~isnan(f) & (f > 0), as 0 / 1
voiced_mask(f) ==
    List([i \in 1..Len(f) |-> IF ~IsNone(f[i]) /\ Val(f[i]) > 0 THEN 1 ELSE 0])

Diffs(t) == List([i \in 1..(Len(t) - 1) |-> t[i + 1] - t[i]])

\* twice dt, dt = median(diff(tR)) if len(tR) > 1 else 0.01
Dt2(tRef) == IF Len(tRef) > 1 THEN Median2(Diffs(tRef)) ELSE DEFAULT_DT2

\* max_shift_frames = int(round(max_shift / dt))
MaxShiftFrames(max_shift, dt2) == RoundHalfEven(2 * max_shift, dt2)

\* the slices a, b of lag k
LagA(mRef, k) ==
    IF k < 0 THEN PySlice(mRef, -k, Len(mRef))
    ELSE IF k > 0 THEN PySlice(mRef, 0, Max2(Len(mRef) - k, 0))
    ELSE mRef
LagB(mRef, mUR, k) ==
    IF k < 0 THEN PySlice(mUR, 0, Len(LagA(mRef, k)))
    ELSE IF k > 0 THEN PySlice(mUR, k, k + Len(LagA(mRef, k)))
    ELSE mUR

\* np.dot(a, b)
Dot(a, b) == SeqSum(List([i \in 1..Len(a) |-> a[i] * b[i]]))

LagScore(mRef, mUR, k) == Dot(LagA(mRef, k), LagB(mRef, mUR, k))

\* whether lag k is scored at all: if len(a) < 10: continue
LagScored(mRef, k) == Len(LagA(mRef, k)) >= MIN_OVERLAP

\* if score > best_score: best_score = score; best_k = k
BetterLag(score, best_score) == score > best_score

RECURSIVE LagSearch(_, _, _, _, _)
\* for k in range(-max_shift_frames, max_shift_frames + 1), carrying
\* best = <<best_k, best_score>>
LagSearch(mRef, mUR, k, last, best) ==
    IF k > last THEN best
    ELSE IF ~LagScored(mRef, k)
    THEN LagSearch(mRef, mUR, k + 1, last, best)
    ELSE IF BetterLag(LagScore(mRef, mUR, k), best[2])
    THEN LagSearch(mRef, mUR, k + 1, last, <<k, LagScore(mRef, mUR, k)>>)
    ELSE LagSearch(mRef, mUR, k + 1, last, best)

\* crosscorr_offset raises when the user track is empty (IndexError) or
\* when dt = 0 (ZeroDivisionError)
CrosscorrRaises(tRef, tUsr) == AlignRaises(tRef, tUsr) \/ Dt2(tRef) = 0

\* <<best_k, best_score>> of crosscorr_offset; best_score starts at -1.0
crosscorr_offset(tRef, mRef, tUsr, mUsr, max_shift) ==
    LET mUR == TakeAt(mUsr, Choose08(tRef, tUsr))
        m == MaxShiftFrames(max_shift, Dt2(tRef))
    IN  LagSearch(mRef, mUR, -m, m, <<0, -1>>)

\* return best_k * dt (exact for the uniformly spaced times of the model)
ShiftOf(best_k, dt2) == (best_k * dt2) \div 2

\* shift_user_pitch: add the shift to every time, f0 untouched
shift_user_pitch(tUsr, shift) == List([i \in 1..Len(tUsr) |-> tUsr[i] + shift])

(***************************************************************************)
(* SingingTrainer/server.py: song catalog and reference pitch cache        *)
(* Python objects are kept by identity: heap maps an object number to the  *)
(* object's content, globals and locals hold object numbers.  Object 0 is  *)
(* the dict _song_cache is bound to at import.  Each thread handles one    *)
(* request at a time; a step is one stretch of a handler between two       *)
(* accesses to shared state.                                               *)
(***************************************************************************)
\* two request threads of the threaded development server
Threads == {"t1", "t2"}
Objs == 1..MaxObjs

\* songs.json entries: two songs and one entry without an id
Song1 == [id |-> "s1", singer |-> "a.wav"]
Song2 == [id |-> "s2", singer |-> "b.wav"]
NoIdEntry == [id |-> "", singer |-> ""]
SongIds == {"s1", "s2"}

\* songs.json: absent, not a {"songs": [...]} document, or a song list
FileMissing == [state |-> "missing", songs |-> <<>>]
FileInvalid == [state |-> "invalid", songs |-> <<>>]
SongList(l) == [state |-> "ok", songs |-> l]
SongsFiles ==
    {FileMissing, FileInvalid, SongList(<<Song1>>),
     SongList(<<Song1, NoIdEntry, Song2>>)}

\* the singer assets on disk: the frames extract_pitch_track_fft yields, or
\* nothing when the file is absent
AssetFrames(name) == IF name = "a.wav" THEN Some(<<Some(440), None>>) ELSE None

\* a heap cell that holds no object yet
Free == [kind |-> "free"]
\* out: Dict[str, SongItem] = {} of one load of the list src
NewCatalog(src) == [kind |-> "catalog", src |-> src, items |-> {}]
\* out = [] of extract_pitch_track_fft on one asset
NewTrack(name) == [kind |-> "track", asset |-> name, track |-> <<>>]

\* out[sid] = SongItem(...): a later entry replaces an earlier one of the
\* same id; entries without an id are skipped
PutSong(items, e) ==
    IF e.id = "" THEN items
    ELSE {it \in items : it.id # e.id} \cup {e}

RECURSIVE CatalogOf(_)
\* the dict a complete run of _load_song_catalog_from_server builds
CatalogOf(src) ==
    IF src = <<>> THEN {}
    ELSE PutSong(CatalogOf(SubSeq(src, 1, Len(src) - 1)), src[Len(src)])

\* a thread between two requests
IdleThread ==
    [pc |-> "idle", req |-> "none", song |-> "", src |-> <<>>, i |-> 0,
     obj |-> 0, resp |-> "none", seen |-> {}]

(***************************************************************************)
(* server.py (both variants): the history table and history_append         *)
(***************************************************************************)
\* src/SingingApp/server.py and SingingTrainer/SingingTrainer/server.py
Variants == {"SingingApp", "SingingTrainer"}

\* init_db: only src/SingingApp/server.py creates a UNIQUE index on
\* history(user_id, client_hash); the trainer's index on the same columns
\* is a plain one
UniqueIndex(v) == v = "SingingApp"

Users == {"u1", "u2"}
\* the Idempotency-Key header: absent, or a text; "h1" is also the digest of
\* the body "b1"
Keys == {None, Some("k1"), Some("h1")}
\* the commentBody of a request: blank or not
Bodies == {"", "b1"}

\* hashlib.sha256(raw).hexdigest()
Sha256(body) == IF body = "b1" THEN "h1" ELSE "h0"

\* client_hash = Idempotency-Key header, or the digest of the raw body
ClientHash(key, body) == IF ~IsNone(key) THEN Val(key) ELSE Sha256(body)

Hashes == {"k1", "h1", "h0"}

\* a thread that handles no history_append
IdleAppend == [pc |-> "idle", user |-> "", hash |-> "", id |-> 0, rowcount |-> 0]

NoAnswers == [uh \in Users \X Hashes |-> [created |-> 0, duplicate |-> 0]]

\* no history request has been made and the table is empty
HistoryOff ==
    /\ variant = "SingingTrainer"
    /\ history = {}
    /\ nextId = 0
    /\ hreq = [t \in Threads |-> IdleAppend]
    /\ answered = NoAnswers

\* INSERT OR IGNORE: the row is dropped when it breaks a uniqueness
\* constraint: the PRIMARY KEY on id, and the UNIQUE index where there is one
Conflicts(row) ==
    \/ \E r \in history : r.id = row.id
    \/ /\ UniqueIndex(variant)
       /\ \E r \in history : r.user = row.user /\ r.hash = row.hash

NonHistoryVars == <<pc, tool, srR, hopR, tR, fR, srU, hopU, tU, fU, maxShift,
                    evtJson, choose, fUonR, cents, events, summary, bestK,
                    shiftSec, bestScore, keyOffset, LyricVars, subs, segMask,
                    segMin, segOut, nLines, voicedSegs, intervals, CatalogVars>>

\* history_append up to db.commit(): a blank commentBody is answered 400;
\* otherwise a fresh uuid is drawn and the INSERT OR IGNORE runs and commits
\* (sqlite lets one writer in at a time)
HistoryInsert(t, user, key, body) ==
    /\ hreq[t].pc = "idle"
    /\ nextId < MaxAppends
    /\ IF body = ""
       THEN UNCHANGED <<history, nextId, hreq>>
       ELSE LET row == [id |-> nextId + 1, user |-> user,
                        hash |-> ClientHash(key, body)]
            IN  /\ nextId' = nextId + 1
                /\ history' = IF Conflicts(row) THEN history
                              ELSE history \cup {row}
                /\ hreq' = [hreq EXCEPT ![t] =
                               [pc |-> "answer", user |-> user,
                                hash |-> row.hash, id |-> row.id,
                                rowcount |-> IF Conflicts(row) THEN 0 ELSE 1]]
    /\ UNCHANGED <<variant, answered, NonHistoryVars>>

\* if (cur.rowcount or 0) == 0: message "duplicate"; else the new item with
\* message None
HistoryAnswer(t) ==
    /\ hreq[t].pc = "answer"
    /\ LET uh == <<hreq[t].user, hreq[t].hash>>
       IN  answered' =
               IF hreq[t].rowcount = 0
               THEN [answered EXCEPT ![uh].duplicate = @ + 1]
               ELSE [answered EXCEPT ![uh].created = @ + 1]
    /\ hreq' = [hreq EXCEPT ![t] = IdleAppend]
    /\ UNCHANGED <<variant, history, nextId, NonHistoryVars>>

\* the server process right after import
ServerOff ==
    /\ songsJson = FileMissing
    /\ heap = [o \in 0..MaxObjs |-> IF o = 0 THEN NewCatalog(<<>>) ELSE Free]
    /\ songCache = 0
    /\ loadedAt = 0
    /\ refPitchCache = [s \in SongIds |-> None]
    /\ proc = [t \in Threads |-> IdleThread]
    /\ edits = 0
    /\ HistoryOff

\* the model's heap has a cell left for a new object
HeapHasRoom == \E o \in Objs : heap[o] = Free

\* the object a constructor call returns: the lowest free cell
FreshObj ==
    CHOOSE o \in 0..MaxObjs :
        \/ o \in Objs /\ heap[o] = Free /\ \A q \in Objs : q < o => heap[q] # Free
        \/ o = 0 /\ ~HeapHasRoom

\* a load that filled the dict the global names instead of a new one
CatalogOut_InPlace == songCache

\* out: Dict[str, SongItem] = {} in _load_song_catalog_from_server
CatalogOut == FreshObj

ToolVars == <<pc, tool, srR, hopR, tR, fR, srU, hopU, tU, fU, maxShift,
              evtJson, choose, fUonR, cents, events, summary, bestK, shiftSec,
              bestScore, keyOffset, LyricVars, subs, segMask, segMin, segOut,
              nLines, voicedSegs, intervals, HistoryVars>>

\* GET /api/admin/songs/reload arrives
StartReload(t) ==
    /\ proc[t].pc = "idle"
    /\ proc' = [proc EXCEPT ![t] = [IdleThread EXCEPT !.pc = "getcat",
                                                   !.req = "reload"]]
    /\ UNCHANGED <<songsJson, heap, songCache, loadedAt, refPitchCache, edits,
                   ToolVars>>

\* POST /api/voice/<user_id>?song_id=sid arrives and reaches analyze_fft
StartAnalyze(t, sid) ==
    /\ proc[t].pc = "idle"
    /\ proc' = [proc EXCEPT ![t] = [IdleThread EXCEPT !.pc = "getcat",
                                                   !.req = "analyze",
                                                   !.song = sid]]
    /\ UNCHANGED <<songsJson, heap, songCache, loadedAt, refPitchCache, edits,
                   ToolVars>>

\* an exception ends the request: SONG_RELOAD_FAILED for a reload, the
\* "analysis failed" object for analyze_fft
Fail(t) ==
    [proc EXCEPT ![t] = [IdleThread EXCEPT
        !.resp = IF proc[t].req = "reload" THEN "SONG_RELOAD_FAILED"
                 ELSE "analysis_failed"]]

\* get_song_catalog: if force_reload or not _song_cache
GetCatalog(t) ==
    /\ proc[t].pc = "getcat"
    /\ proc' = [proc EXCEPT ![t].pc =
                   IF proc[t].req = "reload" \/ heap[songCache].items = {}
                   THEN "load" ELSE "ret"]
    /\ UNCHANGED <<songsJson, heap, songCache, loadedAt, refPitchCache, edits,
                   ToolVars>>

\* _load_song_catalog_from_server up to out = {}: the file is read and
\* checked; a missing or malformed file raises
LoadOpen(t) ==
    /\ proc[t].pc = "load"
    /\ IF songsJson.state # "ok"
       THEN /\ proc' = Fail(t)
            /\ UNCHANGED heap
       ELSE /\ HeapHasRoom
            /\ heap' = [heap EXCEPT ![CatalogOut] = NewCatalog(songsJson.songs)]
            /\ proc' = [proc EXCEPT ![t].pc = "build",
                                    ![t].src = songsJson.songs,
                                    ![t].i = 1,
                                    ![t].obj = CatalogOut]
    /\ UNCHANGED <<songsJson, songCache, loadedAt, refPitchCache, edits,
                   ToolVars>>

\* one round of "for s in songs": out[sid] = SongItem(...)
LoadStep(t) ==
    /\ proc[t].pc = "build"
    /\ proc[t].i <= Len(proc[t].src)
    /\ heap' = [heap EXCEPT ![proc[t].obj].items =
                   PutSong(@, proc[t].src[proc[t].i])]
    /\ proc' = [proc EXCEPT ![t].i = @ + 1]
    /\ UNCHANGED <<songsJson, songCache, loadedAt, refPitchCache, edits,
                   ToolVars>>

\* _song_cache_loaded_at = iso_utc_z(); return out
LoadReturn(t) ==
    /\ proc[t].pc = "build"
    /\ proc[t].i > Len(proc[t].src)
    /\ loadedAt' = loadedAt + 1
    /\ proc' = [proc EXCEPT ![t].pc = "assign"]
    /\ UNCHANGED <<songsJson, heap, songCache, refPitchCache, edits, ToolVars>>

\* _song_cache = <the returned dict>
Publish(t) ==
    /\ proc[t].pc = "assign"
    /\ songCache' = proc[t].obj
    /\ proc' = [proc EXCEPT ![t].pc = "ret"]
    /\ UNCHANGED <<songsJson, heap, loadedAt, refPitchCache, edits, ToolVars>>

\* return _song_cache, and what the caller does with the dict: the reload
\* handler answers with its keys, get_song_or_raise looks the song up and
\* analyze_fft resolves the song's assets
UseCatalog(t) ==
    /\ proc[t].pc = "ret"
    /\ LET items == heap[songCache].items
       IN  IF proc[t].req = "reload"
           THEN proc' = [proc EXCEPT ![t] = [IdleThread EXCEPT
                            !.resp = "reloaded"]]
           ELSE IF \E it \in items :
                      it.id = proc[t].song /\ ~IsNone(AssetFrames(it.singer))
           THEN proc' = [proc EXCEPT ![t].pc = "refcheck",
                                     ![t].seen = @ \cup {songCache}]
           ELSE proc' = Fail(t)
    /\ UNCHANGED <<songsJson, heap, songCache, loadedAt, refPitchCache, edits,
                   ToolVars>>

\* the singer asset of the song the thread looked up
SingerOf(t) ==
    (CHOOSE it \in {Song1, Song2} : it.id = proc[t].song).singer

\* get_ref_pitch_for_song: if song.id in _ref_pitch_cache: return it;
\* otherwise the build starts with an empty list
RefCheck(t) ==
    /\ proc[t].pc = "refcheck"
    /\ IF ~IsNone(refPitchCache[proc[t].song])
       THEN /\ proc' = [proc EXCEPT ![t].pc = "respond",
                                    ![t].seen =
                                        @ \cup {Val(refPitchCache[proc[t].song])}]
            /\ UNCHANGED heap
       ELSE /\ HeapHasRoom
            /\ heap' = [heap EXCEPT ![FreshObj] = NewTrack(SingerOf(t))]
            /\ proc' = [proc EXCEPT ![t].pc = "refbuild", ![t].obj = FreshObj]
    /\ UNCHANGED <<songsJson, songCache, loadedAt, refPitchCache, edits,
                   ToolVars>>

\* one round of the frame loop of extract_pitch_track_fft: out.append(...)
RefBuildStep(t) ==
    /\ proc[t].pc = "refbuild"
    /\ LET o == proc[t].obj
           frames == Val(AssetFrames(heap[o].asset))
       IN  /\ Len(heap[o].track) < Len(frames)
           /\ heap' = [heap EXCEPT ![o].track =
                          Append(@, frames[Len(@) + 1])]
    /\ UNCHANGED <<songsJson, songCache, loadedAt, refPitchCache, proc, edits,
                   ToolVars>>

\* _ref_pitch_cache[song.id] = ref_pitch; return ref_pitch
RefPublish(t) ==
    /\ proc[t].pc = "refbuild"
    /\ LET o == proc[t].obj
       IN  /\ Len(heap[o].track) = Len(Val(AssetFrames(heap[o].asset)))
           /\ refPitchCache' = [refPitchCache EXCEPT ![proc[t].song] = Some(o)]
           /\ proc' = [proc EXCEPT ![t].pc = "respond",
                                   ![t].seen = @ \cup {o}]
    /\ UNCHANGED <<songsJson, heap, songCache, loadedAt, edits, ToolVars>>

\* analyze_fft compares the user's track with the reference track it was
\* handed and returns the analysis
Respond(t) ==
    /\ proc[t].pc = "respond"
    /\ proc' = [proc EXCEPT ![t] = [IdleThread EXCEPT !.resp = "analyzed"]]
    /\ UNCHANGED <<songsJson, heap, songCache, loadedAt, refPitchCache, edits,
                   ToolVars>>

\* somebody rewrites songs.json on the server
EditSongsJson ==
    /\ edits < MaxEdits
    /\ edits' = edits + 1
    /\ \E f \in SongsFiles : f # songsJson /\ songsJson' = f
    /\ UNCHANGED <<heap, songCache, loadedAt, refPitchCache, proc, ToolVars>>

(***************************************************************************)
(* Inputs.                                                                 *)
(***************************************************************************)
\* sr / hop pairs whose frame period is a whole number of milliseconds
Rates == {[sr |-> 10, hop |-> 1], [sr |-> 1000, hop |-> 80]}
Period(sr, hop) == (hop * 1000) \div sr
\* the ideal time grid t[i] = i * hop / sr
Grid(n, period) == List([i \in 1..n |-> (i - 1) * period])

RefF0 == {None, Some(0), Some(440)}
UsrF0 == {None, Some(0), Some(220), Some(440), Some(880)}

\* no mask has been handed to a segmenter on its own
NoMask == segMask = <<>> /\ segMin = 1 /\ nLines = 0

\* nothing has run yet
NotRun ==
    /\ pc = "start"
    /\ tool = "none"
    /\ choose = <<>>
    /\ fUonR = <<>>
    /\ cents = <<>>
    /\ events = <<>>
    /\ summary = NoSummary
    /\ bestK = 0
    /\ shiftSec = 0
    /\ bestScore = 0
    /\ keyOffset = NoKeyOffset
    /\ lines = <<>>
    /\ subs = NoSubs
    /\ segOut = <<>>
    /\ voicedSegs = <<>>
    /\ intervals = <<>>

\* the pitch tools start with no lyric input
Idle ==
    /\ NotRun
    /\ ServerOff
    /\ rows = None
    /\ tieUp = [start |-> FALSE, end |-> FALSE]
    /\ evtJson = None
    /\ NoMask

Inputs == <<srR, hopR, tR, fR, srU, hopU, tU, fU, maxShift, evtJson>>
\* what the scripts compute from the pitch tracks
Results == <<choose, fUonR, cents, events, summary, bestK, shiftSec,
             bestScore, keyOffset>>

(***************************************************************************)
(* Specification Spec: the comparators and segmenters on tracks that lie   *)
(* on their ideal time grids.                                              *)
(***************************************************************************)
Init ==
    /\ Idle
    /\ maxShift = 0
    /\ \E r \in Rates, u \in Rates :
          /\ srR = r.sr /\ hopR = r.hop
          /\ srU = u.sr /\ hopU = u.hop
    /\ fR \in SeqsUpTo(RefF0, MaxFrames)
    /\ fU \in SeqsUpTo(UsrF0, MaxFrames)
    /\ tR = Grid(Len(fR), Period(srR, hopR))
    /\ tU = Grid(Len(fU), Period(srU, hopU))

\* tools/02_compare_with_reference.py main()
Main02 ==
    /\ pc = "start"
    /\ LET ch == align_user_to_ref(tR, tU)
           fur == UserOnRef02(fU, ch)
           cs == Cents02(fur, fR)
       IN  /\ choose' = ch
           /\ fUonR' = fur
           /\ cents' = cs
           /\ events' = Events02(tR, cs, MinFrames02(srR, hopR))
    /\ pc' = "done"
    /\ tool' = "t02"
    /\ UNCHANGED <<Inputs, summary, bestK, shiftSec, bestScore,
                 keyOffset, LyricVars, OtherVars>>

\* tools/08_autosync_offset.py compare_make_events(dR, dU, 40.0, MIN_DUR)
CompareMakeEvents08 ==
    /\ pc = "start"
    /\ tool' = "t08"
    /\ IF AlignRaises(tR, tU)
       THEN /\ pc' = "error"
            /\ UNCHANGED <<choose, fUonR, cents, events>>
       ELSE LET ch == Choose08(tR, tU)
                fU2 == TakeAt(fU, ch)
            IN  /\ pc' = "done"
                /\ choose' = ch
                /\ fUonR' = fU2
                /\ cents' = Cents08(fR, fU2)
                /\ events' = EventsFrom08(tR, fR, fU2, srR, hopR,
                                          TOL_CENTS_08, MIN_DUR_MS)
    /\ UNCHANGED <<Inputs, summary, bestK, shiftSec, bestScore,
                 keyOffset, LyricVars, OtherVars>>

\* tools/01_make_events_and_summary.py main()
Main01 ==
    /\ pc = "start"
    /\ tool' = "t01"
    /\ IF Raises01(fR, fU, srR, hopR, srU, hopU)
       THEN /\ pc' = "error"
            /\ UNCHANGED <<fUonR, cents, events, summary>>
       ELSE /\ pc' = "done"
            /\ fUonR' = SubSeq(fU, 1, N01(fR, fU))
            /\ cents' = CentsList01(fR, fU)
            /\ events' = Events01(tR, fR, fU, Period(srR, hopR))
            /\ summary' = Summary01(tR, fR, fU, Period(srR, hopR))
    /\ UNCHANGED <<Inputs, choose, bestK, shiftSec, bestScore,
                 keyOffset, LyricVars, OtherVars>>

Next == Main02 \/ CompareMakeEvents08 \/ Main01

Spec == Init /\ [][Next]_vars


(***************************************************************************)
(* Specification SpecExtrema: the three segmenters on a reference held at  *)
(* 440 Hz and user tracks two octaves to a semitone away from it, so that  *)
(* the frames of one event differ in cents.                                *)
(***************************************************************************)
ExtUsrF0 == {None, Some(110), Some(220), Some(415), Some(466), Some(880),
             Some(1760)}

InitExtrema ==
    /\ Idle
    /\ maxShift = 0
    /\ srR = 10 /\ hopR = 1 /\ srU = 10 /\ hopU = 1
    /\ \E n \in 0..MaxFrames :
          /\ fR = List([i \in 1..n |-> Some(440)])
          /\ fU \in SeqsOver(ExtUsrF0, n)
    /\ tR = Grid(Len(fR), Period(srR, hopR))
    /\ tU = Grid(Len(fU), Period(srU, hopU))

NextExtrema == Main02 \/ CompareMakeEvents08 \/ Main01

SpecExtrema == InitExtrema /\ [][NextExtrema]_vars

(***************************************************************************)
(* Specification SpecSeg: the two run-length segmenters on arbitrary masks *)
(* and minimum lengths.                                                    *)
(***************************************************************************)
InitSeg ==
    /\ NotRun
    /\ ServerOff
    /\ rows = None
    /\ tieUp = [start |-> FALSE, end |-> FALSE]
    /\ evtJson = None
    /\ maxShift = 0
    /\ srR = 10 /\ hopR = 1 /\ srU = 10 /\ hopU = 1
    /\ fR = <<>> /\ tR = <<>> /\ fU = <<>> /\ tU = <<>>
    /\ segMask \in SeqsUpTo(BOOLEAN, MaxMaskLen)
    /\ segMin \in 1..MaxMinLen
    /\ nLines = 0

\* 02: segment_mask(mask, min_frames)
SegmentMask02 ==
    /\ pc = "start"
    /\ pc' = "done"
    /\ tool' = "t02"
    /\ segOut' = segment_mask(segMask, segMin)
    /\ UNCHANGED <<Inputs, Results, LyricVars, subs, segMask, segMin,
                   nLines, voicedSegs, intervals, CatalogVars,
                   HistoryVars>>

\* 08: seg_from_mask(msk) with the enclosing min_frames
SegFromMask08 ==
    /\ pc = "start"
    /\ pc' = "done"
    /\ tool' = "t08"
    /\ segOut' = seg_from_mask(segMask, segMin)
    /\ UNCHANGED <<Inputs, Results, LyricVars, subs, segMask, segMin,
                   nLines, voicedSegs, intervals, CatalogVars,
                   HistoryVars>>

NextSeg == SegmentMask02 \/ SegFromMask08

SpecSeg == InitSeg /\ [][NextSeg]_vars

(***************************************************************************)
(* Specification SpecAlign: the two nearest-frame aligners on arbitrary    *)
(* non-decreasing time sequences.                                          *)
(***************************************************************************)
TimeSeqs == {t \in SeqsUpTo(0..MaxT, MaxLenA) : NonDecreasing(t)}

InitAlign ==
    /\ Idle
    /\ maxShift = 0
    /\ srR = 10 /\ hopR = 1 /\ srU = 10 /\ hopU = 1
    /\ tR \in TimeSeqs
    /\ tU \in TimeSeqs
    /\ fR = List([i \in 1..Len(tR) |-> Some(440)])
    /\ \/ fU = List([j \in 1..Len(tU) |-> Some(200 + j)])
       \/ fU = List([j \in 1..Len(tU) |-> None])

\* 02: choose = align_user_to_ref(t_ref, t_usr); f_usr_on_ref = [...]
AlignSweep02 ==
    /\ pc = "start"
    /\ pc' = "done"
    /\ tool' = "t02"
    /\ choose' = align_user_to_ref(tR, tU)
    /\ fUonR' = UserOnRef02(fU, align_user_to_ref(tR, tU))
    /\ UNCHANGED <<Inputs, cents, events, summary, bestK, shiftSec, bestScore,
                 keyOffset, LyricVars, OtherVars>>

\* 05: idx = align_on_ref(tR, tU); fU_on_R = fU[idx]
AlignSearch05 ==
    /\ pc = "start"
    /\ tool' = "t05"
    /\ IF AlignRaises(tR, tU)
       THEN /\ pc' = "error"
            /\ UNCHANGED <<choose, fUonR>>
       ELSE /\ pc' = "done"
            /\ choose' = align_on_ref(tR, tU)
            /\ fUonR' = TakeAt(fU, align_on_ref(tR, tU))
    /\ UNCHANGED <<Inputs, cents, events, summary, bestK, shiftSec, bestScore,
                 keyOffset, LyricVars, OtherVars>>

NextAlign == AlignSweep02 \/ AlignSearch05

SpecAlign == InitAlign /\ [][NextAlign]_vars

(***************************************************************************)
(* Specification SpecSummary: the two summarizers on a voiced reference    *)
(* and user tracks of the same length and rate.                            *)
(***************************************************************************)
SumRates == {[sr |-> 1, hop |-> 4], [sr |-> 1, hop |-> 3]}
SumUsrF0 == {None, Some(415), Some(432), Some(440), Some(466), Some(880)}

InitSummary ==
    /\ Idle
    /\ maxShift = 0
    /\ \E r \in SumRates :
          /\ srR = r.sr /\ hopR = r.hop
          /\ srU = r.sr /\ hopU = r.hop
    /\ \E n \in 0..MaxFramesSum :
          /\ \/ fR = List([i \in 1..n |-> Some(440)])
             \/ fR = List([i \in 1..n |-> IF i = 1 THEN None ELSE Some(440)])
          /\ fU \in SeqsOver(SumUsrF0, n)
    /\ tR = Grid(Len(fR), Period(srR, hopR))
    /\ tU = Grid(Len(fU), Period(srU, hopU))

\* tools/05_overall_summary.py main()
Main05 ==
    /\ pc = "start"
    /\ tool' = "t05"
    /\ IF AlignRaises(tR, tU)
       THEN /\ pc' = "error"
            /\ UNCHANGED <<choose, fUonR, cents, summary>>
       ELSE LET idx == align_on_ref(tR, tU)
                fUR == TakeAt(fU, idx)
            IN  /\ pc' = "done"
                /\ choose' = idx
                /\ fUonR' = fUR
                /\ cents' = Cents05(fR, fUR)
                /\ summary' = Summary05(fR, fUR, srR, hopR, evtJson)
    /\ UNCHANGED <<Inputs, events, bestK, shiftSec, bestScore,
                 keyOffset, LyricVars, OtherVars>>

NextSummary == Main05 \/ Main01

SpecSummary == InitSummary /\ [][NextSummary]_vars

(***************************************************************************)
(* Specification SpecMiss: 05 with an events file next to the two tracks.  *)
(* The file holds what json.load returns: nothing (no file, or a file that *)
(* does not parse), or a list of events, possibly empty.  Event times are  *)
(* in ms.                                                                  *)
(***************************************************************************)
MissTimes == {0, 120, 503, 1000}
MissTypes == {"unvoiced_miss", "pitch_low"}
MissEvents ==
    {[type |-> ty, start |-> se[1], end |-> Some(se[2])] :
         ty \in MissTypes,
         se \in {p \in MissTimes \X MissTimes : p[1] < p[2]}}
    \cup {[type |-> "unvoiced_miss", start |-> 120, end |-> None]}

InitMiss ==
    /\ NotRun
    /\ ServerOff
    /\ NoMask
    /\ rows = None
    /\ tieUp = [start |-> FALSE, end |-> FALSE]
    /\ maxShift = 0
    /\ srR = 10 /\ hopR = 1 /\ srU = 10 /\ hopU = 1
    /\ fR = <<Some(440)>> /\ tR = Grid(1, Period(srR, hopR))
    /\ \E u \in SumUsrF0 : fU = <<u>>
    /\ tU = Grid(1, Period(srU, hopU))
    /\ \/ evtJson = None
       \/ \E ev \in SeqsUpTo(MissEvents, MaxEvents) : evtJson = Some(ev)

NextMiss == Main05

SpecMiss == InitMiss /\ [][NextMiss]_vars

(***************************************************************************)
(* Specification SpecKey: the key-offset analyzer and the summarizer on    *)
(* tracks of independent lengths (the user track may be empty).            *)
(***************************************************************************)
KeyRefF0 == {None, Some(440)}
KeyUsrF0 ==
    {None, Some(110), Some(220), Some(415), Some(440), Some(880), Some(1760)}

InitKey ==
    /\ Idle
    /\ maxShift = 0
    /\ srR = 10 /\ hopR = 1 /\ srU = 10 /\ hopU = 1
    /\ fR \in SeqsUpTo(KeyRefF0, MaxFramesKey)
    /\ fU \in SeqsUpTo(KeyUsrF0, MaxFramesKey)
    /\ tR = Grid(Len(fR), Period(srR, hopR))
    /\ tU = Grid(Len(fU), Period(srU, hopU))

\* tools/06_key_offset_check.py main()
Main06 ==
    /\ pc = "start"
    /\ tool' = "t06"
    /\ IF AlignRaises(tR, tU)
       THEN /\ pc' = "error"
            /\ UNCHANGED <<choose, fUonR, cents, keyOffset>>
       ELSE LET idx == align_on_ref(tR, tU)
                fUR == TakeAt(fU, idx)
            IN  /\ pc' = "done"
                /\ choose' = idx
                /\ fUonR' = fUR
                /\ cents' = Cents06(fR, fUR)
                /\ keyOffset' = KeyOffset06(fR, fUR)
    /\ UNCHANGED <<Inputs, events, summary, bestK, shiftSec, bestScore,
                   LyricVars, OtherVars>>

NextKey == Main06 \/ Main05

SpecKey == InitKey /\ [][NextKey]_vars

(***************************************************************************)
(* Specification SpecSync: autosync on tracks with one voiced run each.    *)
(***************************************************************************)
AutosyncMaxes == {100, 160, 300}

\* a track of n frames voiced (440 Hz) on the 0-based frames [a, b)
RunTrack(n, a, b) ==
    List([i \in 1..n |-> IF a < i /\ i <= b THEN Some(440) ELSE None])

RunTracks(n) == {RunTrack(n, a, b) : a \in 0..n, b \in 0..n}

InitSync ==
    /\ Idle
    /\ maxShift \in AutosyncMaxes
    /\ srR = 10 /\ hopR = 1 /\ srU = 10 /\ hopU = 1
    /\ fR \in RunTracks(SyncLen)
    /\ fU \in RunTracks(SyncLen) \cup {<<>>}
    /\ tR = Grid(Len(fR), Period(srR, hopR))
    /\ tU = Grid(Len(fU), Period(srU, hopU))

\* tools/08_autosync_offset.py main(): crosscorr_offset, shift_user_pitch,
\* compare_make_events on the shifted user track
Main08 ==
    /\ pc = "start"
    /\ tool' = "t08"
    /\ IF CrosscorrRaises(tR, tU)
       THEN /\ pc' = "error"
            /\ UNCHANGED <<choose, fUonR, cents, events, bestK, shiftSec,
                           bestScore>>
       ELSE LET best == crosscorr_offset(tR, voiced_mask(fR), tU,
                                         voiced_mask(fU), maxShift)
                shift == ShiftOf(best[1], Dt2(tR))
                tShift == shift_user_pitch(tU, shift)
                ch == Choose08(tR, tShift)
                fU2 == TakeAt(fU, ch)
            IN  /\ pc' = "done"
                /\ bestK' = best[1]
                /\ bestScore' = best[2]
                /\ shiftSec' = shift
                /\ choose' = ch
                /\ fUonR' = fU2
                /\ cents' = Cents08(fR, fU2)
                /\ events' = EventsFrom08(tR, fR, fU2, srR, hopR,
                                          TOL_CENTS_08, MIN_DUR_MS)
    /\ UNCHANGED <<Inputs, summary,
                 keyOffset, LyricVars, OtherVars>>

NextSync == Main08

SpecSync == InitSync /\ [][NextSync]_vars


(***************************************************************************)
(* Specification SpecLyrics: the lyric aligner on short reference tracks   *)
(* and on timed, untimed and malformed rows.                               *)
(***************************************************************************)
\* frame periods of the reference track: 150.5 ms and 500 ms
LyricPeriods == {2408, 8000}
LyricRefF0 == {None, Some(440)}

Absent == [k |-> "absent", v |-> 0]
Bad == [k |-> "bad", v |-> 0]
Num(x) == [k |-> "num", v |-> x]
RawRow(text, start, end) == [text |-> text, start |-> start, end |-> end]

\* rows of the lyric input: without text, untimed, with a malformed start
\* or end, without end, and timed (0 - 0.1 s, 0.0315 - 0.1 s, 0.2 - 1.0 s)
RawRows ==
    {RawRow(None, Num(0), Num(1600)),
     RawRow(Some("la"), Absent, Absent),
     RawRow(Some("la"), Bad, Num(1600)),
     RawRow(Some("la"), Num(0), Bad),
     RawRow(Some("la"), Num(0), Absent),
     RawRow(Some("la"), Num(0), Num(1600)),
     RawRow(Some("la"), Num(504), Num(1600)),
     RawRow(Some("la"), Num(3200), Num(16000))}

InitLyrics ==
    /\ NotRun
    /\ ServerOff
    /\ NoMask
    /\ evtJson = None
    /\ maxShift = 0
    /\ srR = 10 /\ hopR = 1 /\ srU = 10 /\ hopU = 1
    /\ fU = <<>> /\ tU = <<>>
    /\ fR \in SeqsUpTo(LyricRefF0, MaxLyricFrames)
    /\ \E p \in LyricPeriods : tR = Grid(Len(fR), p)
    /\ \/ rows = None
       \/ \E rs \in SeqsUpTo(RawRows, MaxRows) : rows = Some(rs)
    /\ tieUp \in [start : BOOLEAN, end : BOOLEAN]

\* tools/11_align_lyrics.py main(); detect_input_rows raises KeyError when
\* the input has neither "lines" nor "lyrics"
Main11 ==
    /\ pc = "start"
    /\ tool' = "t11"
    /\ IF IsNone(rows)
       THEN /\ pc' = "error"
            /\ UNCHANGED lines
       ELSE /\ pc' = "done"
            /\ lines' = Aligned11(tR, fR, Val(rows), tieUp)
    /\ UNCHANGED <<Inputs, choose, fUonR, cents, events, summary, bestK,
                   shiftSec, bestScore, keyOffset, rows, tieUp, OtherVars>>

NextLyrics == Main11

SpecLyrics == InitLyrics /\ [][NextLyrics]_vars

(***************************************************************************)
(* Specification SpecCatalog: the server threads handle reloads and        *)
(* analyses in any interleaving while songs.json is rewritten.             *)
(***************************************************************************)
\* no analysis tool runs inside the server model
ToolsOff ==
    /\ NotRun
    /\ NoMask
    /\ rows = None
    /\ tieUp = [start |-> FALSE, end |-> FALSE]
    /\ evtJson = None
    /\ maxShift = 0
    /\ srR = 10 /\ hopR = 1 /\ srU = 10 /\ hopU = 1
    /\ fR = <<>> /\ tR = <<>> /\ fU = <<>> /\ tU = <<>>

InitCatalog ==
    /\ ToolsOff
    /\ songsJson \in SongsFiles
    /\ heap = [o \in 0..MaxObjs |-> IF o = 0 THEN NewCatalog(<<>>) ELSE Free]
    /\ songCache = 0
    /\ loadedAt = 0
    /\ refPitchCache = [s \in SongIds |-> None]
    /\ proc = [t \in Threads |-> IdleThread]
    /\ edits = 0
    /\ HistoryOff

NextCatalog ==
    \/ \E t \in Threads : StartReload(t)
    \/ \E t \in Threads, sid \in SongIds : StartAnalyze(t, sid)
    \/ \E t \in Threads : GetCatalog(t)
    \/ \E t \in Threads : LoadOpen(t)
    \/ \E t \in Threads : LoadStep(t)
    \/ \E t \in Threads : LoadReturn(t)
    \/ \E t \in Threads : Publish(t)
    \/ \E t \in Threads : UseCatalog(t)
    \/ \E t \in Threads : RefCheck(t)
    \/ \E t \in Threads : RefBuildStep(t)
    \/ \E t \in Threads : RefPublish(t)
    \/ \E t \in Threads : Respond(t)
    \/ EditSongsJson

SpecCatalog == InitCatalog /\ [][NextCatalog]_vars

(***************************************************************************)
(* Specification SpecHistory: either server answers history_append         *)
(* requests on two threads, starting from an empty table.                  *)
(***************************************************************************)
InitHistory ==
    /\ ToolsOff
    /\ songsJson = FileMissing
    /\ heap = [o \in 0..MaxObjs |-> IF o = 0 THEN NewCatalog(<<>>) ELSE Free]
    /\ songCache = 0
    /\ loadedAt = 0
    /\ refPitchCache = [s \in SongIds |-> None]
    /\ proc = [t \in Threads |-> IdleThread]
    /\ edits = 0
    /\ variant \in Variants
    /\ history = {}
    /\ nextId = 0
    /\ hreq = [t \in Threads |-> IdleAppend]
    /\ answered = NoAnswers

NextHistory ==
    \/ \E t \in Threads, user \in Users, key \in Keys, body \in Bodies :
           HistoryInsert(t, user, key, body)
    \/ \E t \in Threads : HistoryAnswer(t)

SpecHistory == InitHistory /\ [][NextHistory]_vars

(***************************************************************************)
(* Specification SpecSplit: split_or_merge on the voiced segments of a     *)
(* reference track, for a given number of lines.                           *)
(***************************************************************************)
\* frame periods of 50 ms, 150.5 ms and 500 ms
SplitPeriods == {800, 2408, 8000}

InitSplit ==
    /\ NotRun
    /\ ServerOff
    /\ rows = None
    /\ tieUp = [start |-> FALSE, end |-> FALSE]
    /\ evtJson = None
    /\ segMask = <<>> /\ segMin = 1
    /\ maxShift = 0
    /\ srR = 10 /\ hopR = 1 /\ srU = 10 /\ hopU = 1
    /\ fU = <<>> /\ tU = <<>>
    /\ fR \in SeqsUpTo(LyricRefF0, MaxSplitFrames)
    /\ \E p \in SplitPeriods : tR = Grid(Len(fR), p)
    /\ nLines \in 1..MaxSplitLines

\* segs = voiced_segments(t, f, GAP_SEC); split_or_merge(segs, n_lines)
SplitOrMerge11 ==
    /\ pc = "start"
    /\ pc' = "done"
    /\ tool' = "t11"
    /\ voicedSegs' = voiced_segments(tR, fR, GAP_SEC_11)
    /\ intervals' = split_or_merge(voiced_segments(tR, fR, GAP_SEC_11), nLines)
    /\ UNCHANGED <<Inputs, Results, LyricVars, subs, segMask, segMin, segOut,
                   nLines, CatalogVars, HistoryVars>>

NextSplit == SplitOrMerge11

SpecSplit == InitSplit /\ [][NextSplit]_vars

(***************************************************************************)
(* Specification SpecLrc: 11 on timed rows, then 12 on the lines 11 wrote. *)
(***************************************************************************)
\* line starts in ms: below and next to a whole second, a whole minute, an
\* hour and a hundred minutes
LrcStarts == {0, 996, 1230, 59996, 61004, 3599999, 6000010}

InitLrc ==
    /\ NotRun
    /\ ServerOff
    /\ NoMask
    /\ evtJson = None
    /\ maxShift = 0
    /\ srR = 10 /\ hopR = 1 /\ srU = 10 /\ hopU = 1
    /\ fU = <<>> /\ tU = <<>>
    /\ fR = <<>> /\ tR = <<>>
    /\ tieUp = [start |-> FALSE, end |-> FALSE]
    /\ \E ss \in SeqsUpTo(LrcStarts, MaxRows) :
          rows = Some(List([i \in 1..Len(ss) |->
                     RawRow(Some("la"), Num(ss[i] * TicksPerMs),
                            Num((ss[i] + 1000) * TicksPerMs))]))

\* tools/12_make_subtitles.py main(), on the lyrics_aligned.json of 11
Main12 ==
    /\ pc = "done"
    /\ tool = "t11"
    /\ tool' = "t12"
    /\ IF lines = <<>>
       THEN /\ pc' = "error"
            /\ UNCHANGED subs
       ELSE /\ pc' = "done"
            /\ subs' = [lrc |-> write_lrc(lines),
                        srt |-> write_srt(lines),
                        overlay |-> write_overlay_json(lines),
                        copy |-> lines]
    /\ UNCHANGED <<Inputs, Results, LyricVars, segMask, segMin, segOut,
                   nLines, voicedSegs, intervals, CatalogVars,
                   HistoryVars>>

NextLrc == Main11 \/ Main12

SpecLrc == InitLrc /\ [][NextLrc]_vars

(***************************************************************************)
(* Properties.                                                             *)
(***************************************************************************)
Done == pc = "done"
EventAt(i) == events[i]

\* C1: every event emitted by the segmenters of 02 and 08 (pitch_low,
\* pitch_high, unvoiced_miss) lasts at least MIN_DURATION (0.20 s):
\* end - start >= MIN_DURATION; shorter runs are rejected.
C1_EventsMinDuration ==
    (Done /\ tool \in {"t02", "t08"}) =>
        \A i \in 1..Len(events) :
            EventAt(i).end - EventAt(i).start >= MIN_DURATION_MS

\* The verdict rules of the summary, read off the emitted statistics.
InsufficientRule ==
    summary.seconds_ms < MIN_SECONDS * 1000 \/ summary.denom = 0
LowRule ==
    \/ Val(summary.median2) <= -2 * 20
    \/ 100 * (summary.n_high - summary.n_low) <= -15 * summary.denom
HighRule ==
    \/ Val(summary.median2) >= 2 * 20
    \/ 100 * (summary.n_high - summary.n_low) >= 15 * summary.denom
InconsistentRule ==
    100 * summary.n_within < 55 * summary.denom \/ summary.std_gt_120
NoRuleApplies ==
    ~InsufficientRule /\ ~LowRule /\ ~HighRule /\ ~InconsistentRule

C3_Original ==
    Done =>
        /\ summary.verdict \in VerdictSet
        /\ NoRuleApplies =>
              IF 100 * summary.n_within >= 85 * summary.denom
              THEN summary.verdict = "mostly_ok"
              ELSE summary.verdict = "needs_work"

\* C3 amended: the verdict is one of the six values; in 05_overall_summary
\* the verdict is mostly_ok whenever no earlier rule applies, whatever
\* percent_within_tol is (needs_work is never produced there); in
\* 01_make_events_and_summary, which has no other rule, the verdict is
\* mostly_ok exactly when the rounded percent_within_tol >= 0.85 and
\* needs_work otherwise.
C3_Amended ==
    Done =>
        /\ summary.verdict \in VerdictSet
        /\ (tool = "t05" /\ NoRuleApplies) => summary.verdict = "mostly_ok"
        /\ tool = "t05" => summary.verdict # "needs_work"
        /\ tool = "t01" =>
              IF Val(summary.percent_within_tol) >= 8500
              THEN summary.verdict = "mostly_ok"
              ELSE summary.verdict = "needs_work"

\* C3 witness: 05 reports mostly_ok with no earlier rule applying and
\* fewer than 85% of the frames within tolerance.
C3_Witness ==
    /\ Done /\ tool = "t05"
    /\ NoRuleApplies
    /\ 100 * summary.n_within < 85 * summary.denom
    /\ summary.verdict = "mostly_ok"

\* C4 as stated: for every pair of tracks the three fractions share one
\* denominator, lie in [0, 1] and sum to 1.
C4_Original ==
    Done =>
        /\ summary.denom > 0
        /\ summary.n_low + summary.n_within + summary.n_high = summary.denom
        /\ 0 <= summary.n_within /\ summary.n_within <= summary.denom

PercentSum ==
    Val(summary.percent_low) + Val(summary.percent_within_tol)
        + Val(summary.percent_high)

\* C4 amended: whenever at least one frame has a present cents value, each
\* such frame is counted in exactly one of low, within, high over the same
\* denominator, so the fractions sum to 1 and 0 <= percent_within_tol <= 1
\* (the written, rounded values sum to 1 within one unit of the last
\* decimal); with no present cents value the fractions are missing (05) or
\* all 0.0 (01).
C4_Amended ==
    Done =>
        /\ summary.denom > 0 =>
              /\ summary.n_low + summary.n_within + summary.n_high
                    = summary.denom
              /\ 0 <= summary.n_within /\ summary.n_within <= summary.denom
              /\ 0 <= Val(summary.percent_within_tol)
              /\ Val(summary.percent_within_tol) <= summary.pscale
              /\ Abs(PercentSum - summary.pscale) <= 1
        /\ (summary.denom = 0 /\ tool = "t05") =>
              /\ IsNone(summary.percent_within_tol)
              /\ IsNone(summary.percent_low)
              /\ IsNone(summary.percent_high)
        /\ (summary.denom = 0 /\ tool = "t01") =>
              /\ PercentSum = 0
              /\ Val(summary.percent_within_tol) = 0

\* C4 witness: a summary over present frames of all three classes.
C4_Witness ==
    /\ Done /\ tool = "t05"
    /\ summary.n_low > 0 /\ summary.n_within > 0 /\ summary.n_high > 0
    /\ summary.n_low + summary.n_within + summary.n_high = summary.denom

BothPositive(i) ==
    /\ ~IsNone(fR[i]) /\ ~IsNone(fUonR[i])
    /\ Val(fR[i]) > 0 /\ Val(fUonR[i]) > 0

\* C5: the comparator emits a cents value at index i exactly when the
\* reference f0 and the aligned user f0 are both present and strictly
\* positive; the value is 1200*log2(user/ref): 0 for user = ref, +1200 for
\* user = 2 ref, -1200 for user = ref / 2, and of the sign of user - ref.
C5_CentsLaw ==
    (Done /\ tool \in {"t02", "t08"}) =>
        /\ Len(cents) = Len(fR)
        /\ \A i \in 1..Len(fR) :
              /\ ~IsNone(cents[i]) <=> BothPositive(i)
              /\ BothPositive(i) =>
                    LET u == Val(fUonR[i])
                        r == Val(fR[i])
                        c == Val(cents[i])
                    IN  /\ u = r => c = 0
                        /\ u = 2 * r => c = 1200
                        /\ 2 * u = r => c = -1200
                        /\ Sign(c) = Sign(u - r)

\* C5 witness: one comparison holding an octave-high value, an octave-low
\* value and a value missing because a frequency is 0.
C5_Witness ==
    /\ Done /\ tool = "t02"
    /\ \E i \in 1..Len(cents) : cents[i] = Some(1200)
    /\ \E i \in 1..Len(cents) : cents[i] = Some(-1200)
    /\ \E i \in 1..Len(cents) :
          IsNone(cents[i]) /\ ~IsNone(fR[i]) /\ fUonR[i] = Some(0)

\* C6: the aligned user sequence of 02 has exactly len(ref.track) entries
\* for every user track, and every entry is None when the user track is
\* empty.
C6_AlignedShape ==
    (Done /\ tool = "t02") =>
        /\ Len(choose) = Len(tR)
        /\ Len(fUonR) = Len(tR)
        /\ tU = <<>> => \A i \in 1..Len(fUonR) : IsNone(fUonR[i])

\* C6 witness: an empty user track against a non-empty reference, and
\* (separately reachable) a user track longer than the reference.
C6_Witness ==
    /\ Done /\ tool = "t02"
    /\ tU = <<>> /\ Len(tR) = MaxLenA
    /\ Len(fUonR) = MaxLenA

\* C7: for non-decreasing reference times and a non-empty non-decreasing
\* user time sequence, the chosen user frame is a nearest one: no user
\* frame is strictly closer to the reference time.
C7_NearestFrame ==
    (Done /\ tU # <<>>) =>
        \A i \in 1..Len(tR) :
            \A j \in 1..Len(tU) :
                Abs(tU[j] - tR[i])
                    >= Abs(PyIndex(tU, Val(choose[i])) - tR[i])

\* C7 witness: the sweep chose a frame other than the first for a
\* reference time lying strictly between two user frames.
C7_Witness ==
    /\ Done /\ tool = "t02" /\ Len(tU) >= 2
    /\ \E i \in 1..Len(tR) :
          /\ Val(choose[i]) >= 1
          /\ PyIndex(tU, Val(choose[i]) - 1) < tR[i]
          /\ tR[i] < PyIndex(tU, Val(choose[i]))

\* the user track is the reference delayed by d frames on the same grid,
\* the voiced frames of the reference lying clear of both ends of the track
\* by the search range, so that no lag cuts the voiced content
DelayedBy(d) ==
    LET m == MaxShiftFrames(maxShift, Dt2(tR))
    IN  /\ Len(fU) = Len(fR)
        /\ tU = tR
        /\ \A i \in 1..Len(fR) :
              fU[i] = IF i > d THEN fR[i - d] ELSE None
        /\ \E i \in 1..Len(fR) : ~IsNone(fR[i])
        /\ \A i \in 1..Len(fR) :
              ~IsNone(fR[i]) => (i > m /\ i + d + m <= Len(fR))

\* C8: if the user track is the reference delayed by d frames, with d frame
\* periods <= AUTOSYNC_MAX, autosync returns -d frame periods within one
\* frame and the events computed from the shifted track are empty.
C8_DelayedUserSync ==
    Done =>
        \A d \in 1..SyncLen :
            (DelayedBy(d) /\ d * Period(srR, hopR) <= maxShift) =>
                /\ Abs(shiftSec + d * Period(srR, hopR)) <= Period(srR, hopR)
                /\ events = <<>>

\* C9: the shift returned by autosync satisfies |shift| <= AUTOSYNC_MAX.
C9_ShiftBound == Done => Abs(shiftSec) <= maxShift

\* the lags that crosscorr_offset scores, and those of maximal score
ScoredLags ==
    LET m == MaxShiftFrames(maxShift, Dt2(tR))
    IN  {k \in (-m)..m : LagScored(voiced_mask(fR), k)}
\* C10: among the lags of maximal score autosync returns the one of
\* smallest |shift|, the negative one of two of equal |shift|; when every
\* lag scores the same the shift is 0.
C10_TieBreak ==
    (Done /\ ScoredLags # {}) =>
        LET mU == TakeAt(voiced_mask(fU), Choose08(tR, tU))
            sc(k) == LagScore(voiced_mask(fR), mU, k)
            top == {k \in ScoredLags : \A k2 \in ScoredLags : sc(k) >= sc(k2)}
        IN  /\ bestK \in top
            /\ \A k2 \in top :
                  \/ Abs(bestK) < Abs(k2)
                  \/ (Abs(bestK) = Abs(k2) /\ bestK <= k2)
            /\ top = ScoredLags => shiftSec = 0

(***************************************************************************)
(* Key offset (06).                                                        *)
(***************************************************************************)
KeyDone == Done /\ tool = "t06"
AllCentsIn(S) == cents # <<>> /\ \A i \in 1..Len(cents) : cents[i] \in S

\* C11: whenever at least one cents value is present, the wrapped median
\* (median cents minus 1200 * octave_k, octave_k = round(median / 1200))
\* lies in the half-open interval (-600, +600], also at the exact
\* half-octave medians -600, 600 and 1800.
C11_WrappedMedianRange ==
    (KeyDone /\ cents # <<>>) =>
        /\ keyOffset.wrapped_median_cents_x10 > -6000
        /\ keyOffset.wrapped_median_cents_x10 <= 6000

\* C12: the key-offset verdict is octave_shift exactly when |octave_k| >= 1
\* and |median - 1200 * octave_k| < 200, and key_shift otherwise; when every
\* present cents value is -1200 the result is octave_k = -1, wrapped median
\* 0, wrapped_within_40c = 1 and octave_shift; when every present cents
\* value is one half step flat (here: anywhere in -149..-51, which contains
\* -100) the result is semitone_offset = -1, octave_k = 0 and key_shift.
C12_KeyOffsetVerdict ==
    (KeyDone /\ cents # <<>>) =>
        /\ keyOffset.verdict \in {"octave_shift", "key_shift"}
        /\ keyOffset.verdict = "octave_shift" <=>
              /\ Abs(keyOffset.octave_k) >= 1
              /\ Abs(keyOffset.median_cents_x10
                       - 12000 * keyOffset.octave_k) < 2000
        /\ AllCentsIn({-1200}) =>
              /\ keyOffset.octave_k = -1
              /\ keyOffset.wrapped_median_cents_x10 = 0
              /\ keyOffset.wrapped_within_40c = Some(1000)
              /\ keyOffset.verdict = "octave_shift"
        /\ AllCentsIn(-149..-51) =>
              /\ keyOffset.semitone_offset = -1
              /\ keyOffset.octave_k = 0
              /\ keyOffset.verdict = "key_shift"

\* an octave-low user over at least two frames, diagnosed as octave_shift
C12_Witness ==
    /\ KeyDone
    /\ Len(cents) >= 2
    /\ AllCentsIn({-1200})
    /\ keyOffset.verdict = "octave_shift"

NoVoicedUser == \A j \in 1..Len(fU) : IsNone(fU[j])

\* C19: when the user track is empty or has no voiced frame, the summarizer
\* (05) and the key-offset analyzer (06) complete without raising, the
\* aligned user sequence has one None per reference frame, the summary
\* verdict is insufficient_data and no event is produced.
C19_EmptyUserRecovers ==
    (pc # "start" /\ tool \in {"t05", "t06"} /\ NoVoicedUser) =>
        /\ pc = "done"
        /\ Len(fUonR) = Len(tR)
        /\ \A i \in 1..Len(fUonR) : IsNone(fUonR[i])
        /\ tool = "t05" => summary.verdict = "insufficient_data"
        /\ events = <<>>

(***************************************************************************)
(* Events of the segmenters (02, 08 compare_make_events, 01).              *)
(***************************************************************************)
\* the three frame masks of the run that produced the events
LowMask ==
    IF tool = "t02" THEN IsLow02(cents)
    ELSE IF tool = "t08" THEN Lo08(cents, TOL_CENTS_08)
    ELSE LowFlags01(fR, fU, cents)
HighMask ==
    IF tool = "t02" THEN IsHigh02(cents)
    ELSE IF tool = "t08" THEN Hi08(cents, TOL_CENTS_08)
    ELSE HighFlags01(fR, fU, cents)
MissMask ==
    IF tool = "t02" THEN UnvoicedMiss02(fR, fUonR)
    ELSE IF tool = "t08" THEN Uv08(fR, fUonR)
    ELSE MissFlags01(fR, fU)
MaskOf(kind) ==
    IF kind = "pitch_low" THEN LowMask
    ELSE IF kind = "pitch_high" THEN HighMask
    ELSE MissMask
SegmenterDone == Done /\ tool \in {"t02", "t08", "t01"}

\* [s, e) (0-based) is a maximal run of true flags of mask m
MaximalRun(m, s, e) ==
    /\ \A i \in (s + 1)..e : m[i]
    /\ s > 0 => ~m[s]
    /\ e < Len(m) => ~m[e + 1]

\* C13: the list of events written by the segmenter is sorted by start time
\* ascending across all three event types.
C13_EventsSorted ==
    SegmenterDone =>
        \A i \in 1..(Len(events) - 1) : EventAt(i).start <= EventAt(i + 1).start

\* C14: every event comes from a maximal run [s, e) of flagged frames, its
\* start is the reference time of frame s and its end is the reference time
\* of the last included frame e - 1 plus one frame period (hop / sr).
C14_EventEndsAfterLastFrame ==
    SegmenterDone =>
        \A k \in 1..Len(events) :
            \E s \in 0..Len(tR), e \in 1..Len(tR) :
                /\ s < e
                /\ MaximalRun(MaskOf(EventAt(k).type), s, e)
                /\ EventAt(k).start = PyIndex(tR, s)
                /\ EventAt(k).end = PyIndex(tR, e - 1) + Period(srR, hopR)

\* the frames an event covers: from its start to its last included frame
FramesOf(ev) ==
    {i \in 1..Len(tR) :
        /\ ev.start <= tR[i]
        /\ IF tool = "t01" THEN tR[i] < ev.end ELSE tR[i] <= ev.end}

\* C15: on every frame at most one of the masks low and high is true, and
\* low is never true where unvoiced_miss is true; no pitch_low event shares
\* a frame with a pitch_high event or with an unvoiced_miss event.
C15_MasksExclusive ==
    SegmenterDone =>
        /\ \A i \in 1..Len(LowMask) :
              /\ ~(LowMask[i] /\ HighMask[i])
              /\ ~(LowMask[i] /\ MissMask[i])
        /\ \A a \in 1..Len(events), b \in 1..Len(events) :
              (EventAt(a).type = "pitch_low" /\ EventAt(b).type # "pitch_low")
                  => FramesOf(EventAt(a)) \cap FramesOf(EventAt(b)) = {}

\* one run with a low event, a high event and an unvoiced_miss event
C15_Witness ==
    /\ SegmenterDone
    /\ \E a \in 1..Len(events), b \in 1..Len(events), c \in 1..Len(events) :
          /\ EventAt(a).type = "pitch_low"
          /\ EventAt(b).type = "pitch_high"
          /\ EventAt(c).type = "unvoiced_miss"
    /\ \E i \in 1..Len(LowMask) : LowMask[i]

(***************************************************************************)
(* Lyric lines (11).                                                       *)
(***************************************************************************)
LyricsDone == Done /\ tool = "t11"
\* the input rows that have a text
RowsWithText == {i \in 1..Len(Val(rows)) : ~IsNone(Val(rows)[i].text)}

\* C16: for every lyric input (timed rows, or untimed rows laid over the
\* voiced segments by pairing, merging or splitting) the aligned lines are
\* sorted by start and do not overlap: line[i].end <= line[i+1].start.
C16_LinesDisjoint ==
    LyricsDone =>
        \A i \in 1..(Len(lines) - 1) :
            /\ lines[i].start <= lines[i + 1].start
            /\ lines[i].end <= lines[i + 1].start

\* C17: every written lyric line satisfies end - start >= MIN_LINE_DURATION
\* (0.40 s = 400 ms), on the timed and on the untimed path.
C17_LinesMinDuration ==
    LyricsDone =>
        \A i \in 1..Len(lines) : lines[i].end - lines[i].start >= 400

\* C18: a lyric line whose timestamp is malformed or missing is never
\* silently omitted: when no error is raised, the number of output lines
\* equals the number of input rows that have text.
C18_NoLineDropped ==
    LyricsDone => Len(lines) = Cardinality(RowsWithText)

(***************************************************************************)
(* C21.  unvoiced_miss_seconds of the 05 summary.                          *)
(***************************************************************************)
\* the sum of end - start over the unvoiced_miss events of a list, in ms
RECURSIVE MissMs(_)
MissMs(ev) ==
    IF ev = <<>> THEN 0
    ELSE (IF Head(ev).type = "unvoiced_miss" /\ ~IsNone(Head(ev).end)
          THEN Val(Head(ev).end) - Head(ev).start ELSE 0) + MissMs(Tail(ev))

Done05 == pc = "done" /\ tool = "t05"

\* C21: the 05 summary carries as unvoiced_miss_seconds the sum of the
\* durations of the unvoiced_miss events of every supplied event list, the
\* empty list included (then 0), to two decimals; it is None only when no
\* event list was supplied.
C21_UnvoicedMissSeconds ==
    Done05 =>
        summary.unvoiced_miss_seconds =
            IF IsNone(evtJson) THEN None
            ELSE Some(RoundHalfEven(MissMs(Val(evtJson)), 10))

(***************************************************************************)
(* C22.  The population of the summary statistics.                         *)
(***************************************************************************)
\* the cents of the frames that have a cents value, exact zeros included:
\* for 01 the frames voiced in both tracks index by index, for 05 the frames
\* voiced in the reference and in the aligned user track
PresentCents22 ==
    IF tool = "t01"
    THEN Present(List([i \in 1..N01(fR, fU) |->
             IF Voiced01(fR, fU, i)
             THEN Some(Log2Cents(Val(fU[i]), Val(fR[i]))) ELSE None]))
    ELSE Present(List([i \in 1..Len(fR) |->
             IF ~IsNone(fR[i]) /\ ~IsNone(fUonR[i])
             THEN Some(Log2Cents(Val(fUonR[i]), Val(fR[i]))) ELSE None]))

\* C22: mean, median, standard deviation and percentiles of a summary are
\* computed over exactly the frames whose cents are present, a frame whose
\* cents are exactly 0 included.
C22_StatsOverPresentCents ==
    (pc = "done" /\ tool \in {"t01", "t05"}) =>
        summary.stat_values = PresentCents22

(***************************************************************************)
(* C23.  Boundaries of the voiced segments of the reference.               *)
(***************************************************************************)
\* main() took the untimed path: the lines were laid over voiced_segments
UntimedDone ==
    LyricsDone /\ ~IsNone(rows) /\ ~HasTimed(detect_input_rows(Val(rows)))

\* the runs of voiced frames that voiced_segments turns into segments, as
\* pairs of 0-based frame indices
VoicedRuns23 ==
    LET idx == VoicedIdx(fR, 0)
    IN  IF idx = <<>> THEN <<>> ELSE IdxRuns(idx, 1, idx[1], <<>>)

\* C23: the voiced segments used for untimed lyrics are split only at
\* silence gaps of at least GAP_SEC: between the last frame of a segment and
\* the first frame of the next one at least GAP_SEC pass.
C23_SplitOnlyAtGaps ==
    UntimedDone =>
        /\ Len(voiced_segments(tR, fR, GAP_SEC_11)) = Len(VoicedRuns23)
        /\ \A k \in 1..(Len(VoicedRuns23) - 1) :
              PyIndex(tR, VoicedRuns23[k + 1][1])
                  - PyIndex(tR, VoicedRuns23[k][2]) >= GAP_SEC_11

(***************************************************************************)
(* C24.  The LRC tag and its round trip through parse_time.                *)
(***************************************************************************)
SubsDone == pc = "done" /\ tool = "t12"

\* the tag has the form [mm:ss.xx]: two parts, minutes without a fraction,
\* two digits of seconds in 00..59, two digits of fraction
LrcTagForm(tag) ==
    /\ Len(tag) = 2
    /\ IsNone(tag[1].frac)
    /\ Len(tag[2].int) = 2
    /\ DigitsVal(tag[2].int) <= 59
    /\ ~IsNone(tag[2].frac)
    /\ Len(Val(tag[2].frac)) = 2

\* C24: for every line start t >= 0 given in whole milliseconds the LRC
\* writer emits a tag [mm:ss.xx] with ss in 00..59 and xx in 00..99, and
\* parse_time of the tag returns t rounded to the nearest 0.01 s.
C24_LrcTagRoundTrip ==
    SubsDone =>
        \A i \in 1..Len(lines) :
            /\ LrcTagForm(subs.lrc[i].tag)
            /\ parse_time(subs.lrc[i].tag)
                   = Some(10 * RoundHalfEven(lines[i].start, 10))

(***************************************************************************)
(* C26.  max_cents of pitch events.                                        *)
(***************************************************************************)
\* the cents of frame i of the finished run (01 keeps plain numbers)
CentsAt(i) == IF tool = "t01" THEN cents[i] ELSE Val(cents[i])

RECURSIVE FrameCents(_, _)
\* the cents of the frames an event covers, in frame order
FrameCents(ev, i) ==
    IF i > Len(tR) THEN <<>>
    ELSE (IF i \in FramesOf(ev) THEN <<CentsAt(i)>> ELSE <<>>)
         \o FrameCents(ev, i + 1)

\* the signed extremum of a segment, computed in the three ways of the
\* sources, is x
ExtremaAgree(seg, kind, x) ==
    /\ MaxByAbs(seg) = x
    /\ MaxOfAbs(seg) * Sign(SeqSum(seg)) = x
    /\ (IF kind = "pitch_low" THEN MinOf(seg) ELSE MaxOf(seg)) = x

\* C26: max_cents of a pitch_low event is the least cents value of the
\* frames of its segment, max_cents of a pitch_high event the greatest; on
\* these segments max by absolute value, max(|c|) times the sign of the mean
\* and plain min / max give that same value.
C26_MaxCentsIsExtremum ==
    SegmenterDone =>
        \A k \in 1..Len(events) :
            EventAt(k).type \in {"pitch_low", "pitch_high"} =>
                LET seg == FrameCents(EventAt(k), 1)
                IN  /\ seg # <<>>
                    /\ \A i \in 1..Len(seg) :
                          IF EventAt(k).type = "pitch_low"
                          THEN Val(EventAt(k).max_cents) <= seg[i]
                          ELSE Val(EventAt(k).max_cents) >= seg[i]
                    /\ \E i \in 1..Len(seg) :
                          Val(EventAt(k).max_cents) = seg[i]
                    /\ ExtremaAgree(seg, EventAt(k).type,
                                    Val(EventAt(k).max_cents))

\* a pitch_low event of 02 whose greatest deviation is not on its first frame
C26_Witness ==
    /\ SegmenterDone
    /\ tool = "t02"
    /\ \E k \in 1..Len(events) :
          /\ EventAt(k).type = "pitch_low"
          /\ LET seg == FrameCents(EventAt(k), 1)
             IN  Len(seg) >= 2 /\ seg[1] > Val(EventAt(k).max_cents)

(***************************************************************************)
(* C28.  The two nearest-frame aligners against each other.                *)
(***************************************************************************)
StrictlyIncreasing(t) == \A i \in 1..(Len(t) - 1) : t[i] < t[i + 1]

\* the indices the aligner that did not run computes from the same times
OtherAligner ==
    IF tool = "t02" THEN align_on_ref(tR, tU) ELSE align_user_to_ref(tR, tU)

\* the 0-based position of the frame a Python index selects
FrameOf(t, i) == IF i < 0 THEN i + Len(t) ELSE i

AlignerDone == Done /\ tool \in {"t02", "t05"}

\* C28: for a non-decreasing reference time sequence and a strictly
\* increasing user time sequence of at least one frame, align_user_to_ref
\* and align_on_ref select the same user index for every reference frame.
C28_AlignersAgree ==
    (AlignerDone /\ tU # <<>> /\ StrictlyIncreasing(tU)) =>
        /\ Len(OtherAligner) = Len(choose)
        /\ \A i \in 1..Len(choose) : choose[i] = OtherAligner[i]

\* C28 amended: under the same conditions the two aligners select the same
\* user frame for every reference frame; the indices are equal except on a
\* one-frame user track, where align_on_ref returns -1 (the last frame, the
\* only one) and align_user_to_ref returns 0.
C28_SameFrames ==
    (AlignerDone /\ tU # <<>> /\ StrictlyIncreasing(tU)) =>
        /\ Len(OtherAligner) = Len(choose)
        /\ \A i \in 1..Len(choose) :
              /\ FrameOf(tU, Val(choose[i]))
                     = FrameOf(tU, Val(OtherAligner[i]))
              /\ Len(tU) >= 2 => choose[i] = OtherAligner[i]
              /\ Len(tU) = 1 =>
                     Val(choose[i]) = (IF tool = "t05" THEN -1 ELSE 0)

\* align_on_ref on a one-frame user track, the reference frame before, on
\* and after the user frame
C28_Witness ==
    /\ AlignerDone /\ tool = "t05"
    /\ Len(tU) = 1 /\ Len(tR) = 3
    /\ tR[1] < tU[1] /\ tR[2] = tU[1] /\ tR[3] > tU[1]
    /\ \A i \in 1..3 : choose[i] = Some(-1)

(***************************************************************************)
(* C29.  The two run-length segmenters against each other.                 *)
(***************************************************************************)
MaskDone == Done /\ tool \in {"t02", "t08"}

\* the ranges the segmenter that did not run returns for the same mask
OtherSegmenter ==
    IF tool = "t02" THEN seg_from_mask(segMask, segMin)
    ELSE segment_mask(segMask, segMin)

\* C29: for every boolean mask (the empty mask and masks ending in a true
\* run included) and every minimum length m >= 1, segment_mask and
\* seg_from_mask return the same list of half-open index ranges: exactly the
\* maximal runs of true values of length >= m, ascending and disjoint.
C29_SegmentersAgree ==
    MaskDone =>
        /\ segOut = OtherSegmenter
        /\ \A k \in 1..Len(segOut) :
              /\ segOut[k][1] < segOut[k][2]
              /\ segOut[k][2] <= Len(segMask)
              /\ MaximalRun(segMask, segOut[k][1], segOut[k][2])
              /\ segOut[k][2] - segOut[k][1] >= segMin
        /\ \A k \in 1..(Len(segOut) - 1) : segOut[k][2] < segOut[k + 1][1]
        /\ \A s \in 0..Len(segMask), e \in 1..Len(segMask) :
              (s < e /\ e - s >= segMin /\ MaximalRun(segMask, s, e))
                  => \E k \in 1..Len(segOut) : segOut[k] = <<s, e>>

\* seg_from_mask on a mask that has a run shorter than m and ends in a run
\* of length m
C29_Witness ==
    /\ MaskDone /\ tool = "t08"
    /\ segMin = 2
    /\ segMask = <<TRUE, FALSE, TRUE, TRUE>>
    /\ segOut = <<<<2, 4>>>>

(***************************************************************************)
(* C27.  split_or_merge.                                                   *)
(***************************************************************************)
SplitDone == Done /\ tool = "t11" /\ nLines >= 1

\* C27: for every list of voiced segments (possibly empty) and every line
\* count n >= 1, split_or_merge returns exactly n intervals, in ascending
\* start order, reaching from the start of the first segment to the end of
\* the last one.
C27_SplitOrMergeCount ==
    SplitDone =>
        /\ Len(intervals) = nLines
        /\ \A k \in 1..(Len(intervals) - 1) :
              intervals[k][1] <= intervals[k + 1][1]
        /\ voicedSegs # <<>> =>
              /\ intervals[1][1] = voicedSegs[1][1]
              /\ intervals[Len(intervals)][2] = voicedSegs[Len(voicedSegs)][2]

(***************************************************************************)
(* C25: under any interleaving of requests, reloads and rewrites of        *)
(* songs.json, the catalog the global names and every cached reference     *)
(* track are complete values, and so is every object a request has read    *)
(* from them; no step changes the content of such an object; and a reload  *)
(* that fails leaves the global naming the catalog it named before.        *)
(***************************************************************************)
\* the objects the two caches name
Published ==
    {songCache} \cup {Val(refPitchCache[s]) : s \in {x \in SongIds : ~IsNone(refPitchCache[x])}}

\* the objects the running requests have read from the caches
Observed == UNION {proc[t].seen : t \in Threads}

\* the object holds all that its build was to put into it
Complete(o) ==
    IF heap[o].kind = "catalog" THEN heap[o].items = CatalogOf(heap[o].src)
    ELSE /\ heap[o].kind = "track"
         /\ heap[o].track = Val(AssetFrames(heap[o].asset))

OnlyCompleteVisible == \A o \in Published \cup Observed : Complete(o)

NeverMutated == \A o \in Published \cup Observed : heap'[o] = heap[o]

FailedReloadKeeps ==
    \A t \in Threads :
        (proc[t].req = "reload" /\ proc'[t].resp = "SONG_RELOAD_FAILED"
         /\ proc[t].pc # "idle")
            => songCache' = songCache

C25_AtomicReplacement ==
    /\ []OnlyCompleteVisible
    /\ [][NeverMutated]_vars
    /\ [][FailedReloadKeeps]_vars

\* a reload has failed while a catalog and a track are published, a request
\* has read them, and another thread is in the middle of building a catalog
C25_Witness ==
    \E t, u \in Threads :
        /\ proc[t].resp = "SONG_RELOAD_FAILED"
        /\ proc[u].pc = "build"
        /\ ~Complete(proc[u].obj)
        /\ songCache # 0
        /\ heap[songCache].items # {}
        /\ ~IsNone(refPitchCache["s1"])

(***************************************************************************)
(* C30: after any number of accepted history_append requests with the same *)
(* user_id and client_hash, in either server and in any interleaving, the  *)
(* table holds at most one row for the pair and exactly one once a request *)
(* has been answered, and at most one of the requests was answered as      *)
(* newly created: all the others were answered "duplicate".                *)
(***************************************************************************)
RowsOf(u, h) == {r \in history : r.user = u /\ r.hash = h}

C30_AppendIdempotent ==
    \A u \in Users, h \in Hashes :
        /\ Cardinality(RowsOf(u, h)) <= 1
        /\ answered[<<u, h>>].created <= 1
        /\ answered[<<u, h>>].created + answered[<<u, h>>].duplicate >= 1
              => Cardinality(RowsOf(u, h)) = 1

=============================================================================
